---- MODULE Spec2Model ----
(***************************************************************************)
(* Model of the book-discovery services:                                   *)
(*   aiService.ts   - recommendation cache, LLM client, periodic sweep     *)
(*   bookService.ts - cover resolver, PDF locator, converter, searchBooks  *)
(*   unnamed/part_000, components/UserMenu.tsx - the superseded variants   *)
(*                    of aiService.ts that race several candidate models   *)
(* Strings are sequences of UTF-16 code units (one-character TLA+ strings  *)
(* stand for code units); time is in milliseconds, as Date.now().          *)
(***************************************************************************)
EXTENDS Integers, Sequences, FiniteSets, TLC

(* ------------------------------ bounds -------------------------------- *)
\* number of times the clock advances in one behaviour
MaxTicks == 3

(* ------------------------- program constants -------------------------- *)
CACHE_DURATION == 5 * 60 * 1000
TIMEOUT_MS == 8000

\* the race variants: setTimeout(resolve, index * 500) and
\* tryModelsWithTimeout(query, 6000)
StaggerMs == 500
RaceTimeoutMs == 6000

\* the getAIRecommendations invocations that can be pending at once; Spec runs
\* them one after the other on call 1
Calls == {1, 2}
Sequential == {1}

(* ------------------------------ strings ------------------------------- *)
ToLowerUnit(ch) ==
  CASE ch = "A" -> "a"
    [] ch = "B" -> "b"
    [] ch = "Y" -> "y"
    [] ch = "P" -> "p"
    [] ch = "D" -> "d"
    [] ch = "F" -> "f"
    [] ch = ".PDF" -> ".pdf"
    [] ch = "PDF" -> "pdf"
    [] OTHER -> ch

toLowerCase(s) == [i \in 1..Len(s) |-> ToLowerUnit(s[i])]

\* "\n" is the line feed: white space for \s and trim(), a line terminator for .
IsLineTerminator(ch) == ch = "\n"
IsSpace(ch) == ch = " " \/ IsLineTerminator(ch)

RECURSIVE trimStart(_)
trimStart(s) ==
  IF s # <<>> /\ IsSpace(Head(s)) THEN trimStart(Tail(s)) ELSE s

RECURSIVE trimEnd(_)
trimEnd(s) ==
  IF s # <<>> /\ IsSpace(s[Len(s)]) THEN trimEnd(SubSeq(s, 1, Len(s) - 1)) ELSE s

trim(s) == trimEnd(trimStart(s))

\* const normalizedQuery = query.toLowerCase().trim();
NormalizeNoTrim(query) == toLowerCase(query)
normalizedQuery(query) == trim(toLowerCase(query))

\* the queries callers pass in
Queries ==
  { <<"a">>, <<" ", "A">>, <<"B", " ">> }

(* ---------------------- JS Map (recommendationCache) ------------------- *)
MapHas(m, k) == k \in DOMAIN m
MapSet(m, k, v) == [x \in (DOMAIN m) \cup {k} |-> IF x = k THEN v ELSE m[x]]
MapDeleteAll(m, ks) == [x \in (DOMAIN m) \ ks |-> m[x]]
EmptyMap == [x \in {} |-> 0]

(* ----------------------------- JSON values ----------------------------- *)
\* A parsed JSON value, as far as the services look into it:
\*   kind          typeof of the top-level value
\*   recsKind      what its .recommendations property is
\*   recommendations  the elements when it is a list
\*   enhancedQuery / searchTerms  whether the property is there and well typed
JsonValue(kind, recsKind, recs, eq, st) ==
  [kind |-> kind, recsKind |-> recsKind, recommendations |-> recs,
   enhancedQuery |-> eq, searchTerms |-> st]

\* an element of a recommendations list: a string, or something else (a number)
RecString(text) == [isString |-> TRUE, text |-> text]
RecNumber == [isString |-> FALSE, text |-> <<>>]

RecA == RecString(<<"D", " ", "b", "y", " ", "F">>)
RecB == RecString(<<"S", " ", "B", "y", " ", "A", ",", " ", "B">>)
RecC == RecString(<<"S", "b", "y", " ", "P">>)

NoValue == JsonValue("undefined", "absent", <<>>, FALSE, FALSE)
JsonEmptyObject == JsonValue("object", "absent", <<>>, FALSE, FALSE)
JsonRecsNumber == JsonValue("object", "list", <<RecA, RecNumber>>, TRUE, TRUE)
JsonRec3 == JsonValue("object", "list", <<RecA, RecB, RecC>>, TRUE, TRUE)
JsonRec1 == JsonValue("object", "list", <<RecA>>, TRUE, TRUE)

\* interface AIRecommendation { enhancedQuery: string; recommendations: string[]; searchTerms: string[] }
AIRecommendation(v) ==
  /\ v.kind = "object"
  /\ v.recsKind = "list"
  /\ \A i \in 1..Len(v.recommendations) : v.recommendations[i].isString
  /\ v.enhancedQuery
  /\ v.searchTerms

(* ------------------------ LLM reply and parsing ------------------------ *)
\* The reply text is a sequence of lexical pieces:
\*   "fence"  a ``` marker        "tag"    the word json right after a fence
\*   "ws"     whitespace          "prose"  any other text
\*   "value"  the text of one JSON value (val)
Piece(tok) == [tok |-> tok, val |-> NoValue]
ValuePiece(v) == [tok |-> "value", val |-> v]
Fence == Piece("fence")
Tag == Piece("tag")
Ws == Piece("ws")
Prose == Piece("prose")

FenceIndexes(content) == {i \in 1..Len(content) : content[i] = Fence}
Min(S) == CHOOSE x \in S : \A y \in S : x <= y

RECURSIVE DropTrailingWs(_)
DropTrailingWs(s) ==
  IF s # <<>> /\ s[Len(s)] = Ws THEN DropTrailingWs(SubSeq(s, 1, Len(s) - 1)) ELSE s

RECURSIVE DropLeadingWs(_)
DropLeadingWs(s) ==
  IF s # <<>> /\ Head(s) = Ws THEN DropLeadingWs(Tail(s)) ELSE s

\* content.match(/```(?:json)?\s*([\s\S]*?)\s*```/): the leftmost fence that has a
\* fence after it opens the block, the next fence closes it; group 1 is what lies
\* between, without the optional tag and the surrounding whitespace.
JsonMatches(content) == Cardinality(FenceIndexes(content)) >= 2

JsonMatchGroup1(content) ==
  LET open == Min(FenceIndexes(content))
      close == Min(FenceIndexes(content) \ {open})
      afterTag == IF open + 1 < close /\ content[open + 1] = Tag
                  THEN open + 2 ELSE open + 1
      inner == SubSeq(content, afterTag, close - 1)
  IN DropTrailingWs(DropLeadingWs(inner))

\* JSON.parse(text.trim()): one JSON value, optionally surrounded by whitespace
JsonParses(text) ==
  LET t == DropTrailingWs(DropLeadingWs(text))
  IN Len(t) = 1 /\ t[1].tok = "value"

JsonParse(text) == DropTrailingWs(DropLeadingWs(text))[1].val

\* extractJsonFromResponse: [threw, value]
extractJsonFromResponse(content) ==
  LET jsonString == IF JsonMatches(content) THEN JsonMatchGroup1(content) ELSE content
  IN IF JsonParses(jsonString)
     THEN [threw |-> FALSE, value |-> JsonParse(jsonString)]
     ELSE [threw |-> TRUE, value |-> NoValue]

\* An HTTP reply of the chat-completion endpoint.
\*   status   "ok" (2xx, axios resolves) or "error" (axios rejects)
\*   choices  "missing" (no choices array), "empty" ([]), "present"
\*   content  choices[0].message.content; <<>> when absent or ""
Response(status, choices, content) ==
  [status |-> status, choices |-> choices, content |-> content]

\* reply texts: bare JSON, JSON in a fenced block with and without tag and prose
\* around it, two fenced blocks, text that is not JSON, a lone fence, and JSON
\* that is not a Recommendation
Contents ==
  { <<>>,
    <<ValuePiece(JsonRec1)>>,
    <<Ws, ValuePiece(JsonRec1), Ws>>,
    <<Fence, Tag, Ws, ValuePiece(JsonRec3), Ws, Fence>>,
    <<Prose, Fence, ValuePiece(JsonRec1), Fence, Prose>>,
    <<Fence, ValuePiece(JsonRec3), Fence, Fence, Prose, Fence>>,
    <<Prose, ValuePiece(JsonRec3)>>,
    <<Fence, Prose, Fence>>,
    <<Fence, ValuePiece(JsonRec1)>>,
    <<ValuePiece(JsonEmptyObject)>> }

\* the 2xx replies of the endpoint
Responses ==
  { Response("ok", "missing", <<>>),
    Response("ok", "empty", <<>>) }
  \cup { Response("ok", "present", c) : c \in Contents }

\* getRecommendationsFromModel, from the reply to its settlement (lines 67-81):
\* [threw, value]
ModelOutcome(response) ==
  IF response.choices = "missing"
  THEN [threw |-> TRUE, value |-> NoValue]
  ELSE IF response.choices = "empty" \/ response.content = <<>>
  THEN [threw |-> TRUE, value |-> NoValue]
  ELSE extractJsonFromResponse(response.content)

(* ------------------------------- state --------------------------------- *)
VARIABLES
  now,                  \* Date.now()
  ticks,                \* how often the clock has advanced
  recommendationCache,  \* Map<string, {data, timestamp}>
  nextSweep,            \* when the setInterval callback is next due
  swept,                \* the keys the latest sweep deleted (observation only)
  ai                    \* the getAIRecommendations invocations, by call

aiVars == <<now, ticks, recommendationCache, nextSweep, swept, ai>>

\* One invocation of getAIRecommendations (with its getRecommendationsFromModel).
\*   pc          "idle" | "awaitingModel" | "resolved" | "rejected"
\*   timerArmed  the setTimeout(() => controller.abort(), timeoutMs) is pending
\*   aborted     controller.signal.aborted
\*   inFlight    the axios.post has not settled
\*   deadline    when the abort timer and axios' own timeout are due
\*   requests    axios.post calls issued by this invocation
\*   cause       why it rejected
IdleCall ==
  [pc |-> "idle", query |-> <<>>, timerArmed |-> FALSE, aborted |-> FALSE,
   inFlight |-> FALSE, deadline |-> 0, requests |-> 0, result |-> NoValue,
   fromCache |-> FALSE, cause |-> "none"]

Settled(call) == call.pc \in {"resolved", "rejected"}

CacheEntry(data, timestamp) == [data |-> data, timestamp |-> timestamp]

CacheHitWrongCompare(cache, key, t) ==
  MapHas(cache, key) /\ (t - cache[key].timestamp) > CACHE_DURATION

CacheHitIgnoresAge(cache, key, t) == MapHas(cache, key)

\* if (cached && (Date.now() - cached.timestamp) < CACHE_DURATION)
CacheHit(cache, key, t) ==
  MapHas(cache, key) /\ (t - cache[key].timestamp) < CACHE_DURATION

SweepExpiredNone(cache, t) == {}

SweepExpiredYounger(cache, t) ==
  {k \in DOMAIN cache : t - cache[k].timestamp < CACHE_DURATION}

\* if (now - value.timestamp > CACHE_DURATION) recommendationCache.delete(key)
SweepExpired(cache, t) ==
  {k \in DOMAIN cache : t - cache[k].timestamp > CACHE_DURATION}

InitAI ==
  /\ now = 0
  /\ ticks = 0
  /\ recommendationCache = EmptyMap
  /\ nextSweep = CACHE_DURATION
  /\ swept = {}
  /\ ai = [c \in Calls |-> IdleCall]

\* getAIRecommendations(query) up to its first await: the cache lookup, and on a
\* miss getRecommendationsFromModel(query, 8000) up to the axios.post
GetAIRecommendationsEvicts(c, query) ==
  /\ ai[c].pc = "idle"
  /\ LET key == normalizedQuery(query)
     IN IF CacheHit(recommendationCache, key, now)
        THEN /\ ai' = [ai EXCEPT ![c] =
                        [IdleCall EXCEPT !.pc = "resolved", !.query = query,
                                         !.result = recommendationCache[key].data,
                                         !.fromCache = TRUE]]
             /\ recommendationCache' = recommendationCache
        ELSE /\ ai' = [ai EXCEPT ![c] =
                        [IdleCall EXCEPT !.pc = "awaitingModel", !.query = query,
                                         !.timerArmed = TRUE, !.inFlight = TRUE,
                                         !.deadline = now + TIMEOUT_MS,
                                         !.requests = 1]]
             /\ recommendationCache' = MapDeleteAll(recommendationCache, {key})
  /\ UNCHANGED <<now, ticks, nextSweep, swept>>

GetAIRecommendations(c, query) ==
  /\ ai[c].pc = "idle"
  /\ LET key == normalizedQuery(query)
     IN IF CacheHit(recommendationCache, key, now)
        THEN ai' = [ai EXCEPT ![c] =
                      [IdleCall EXCEPT !.pc = "resolved", !.query = query,
                                       !.result = recommendationCache[key].data,
                                       !.fromCache = TRUE]]
        ELSE ai' = [ai EXCEPT ![c] =
                      [IdleCall EXCEPT !.pc = "awaitingModel", !.query = query,
                                       !.timerArmed = TRUE, !.inFlight = TRUE,
                                       !.deadline = now + TIMEOUT_MS,
                                       !.requests = 1]]
  /\ UNCHANGED <<now, ticks, recommendationCache, nextSweep, swept>>

AfterResponseKeepsTimer(call, response, t) ==
  LET out == ModelOutcome(response)
  IN IF out.threw
     THEN [call EXCEPT !.pc = "rejected", !.inFlight = FALSE, !.timerArmed = FALSE,
                       !.cause = "reply"]
     ELSE [call EXCEPT !.pc = "resolved", !.inFlight = FALSE, !.result = out.value]

\* the call as it is after `const response = await axios.post(...)` returned and
\* the rest of getRecommendationsFromModel and getAIRecommendations ran
AfterResponse(call, response, t) ==
  LET out == ModelOutcome(response)
  IN IF out.threw
     THEN [call EXCEPT !.pc = "rejected", !.inFlight = FALSE, !.timerArmed = FALSE,
                       !.cause = "reply"]
     ELSE [call EXCEPT !.pc = "resolved", !.inFlight = FALSE, !.timerArmed = FALSE,
                       !.result = out.value]

\* the cache after that continuation: set(normalizedQuery, {data, timestamp})
CacheAfterResponseDropsOnFailure(cache, call, response, t) ==
  LET out == ModelOutcome(response)
  IN IF out.threw THEN MapDeleteAll(cache, {normalizedQuery(call.query)})
     ELSE MapSet(cache, normalizedQuery(call.query), CacheEntry(out.value, t))

CacheAfterResponseKeepsFirst(cache, call, response, t) ==
  LET out == ModelOutcome(response)
  IN IF out.threw \/ MapHas(cache, normalizedQuery(call.query)) THEN cache
     ELSE MapSet(cache, normalizedQuery(call.query), CacheEntry(out.value, t))

CacheAfterResponse(cache, call, response, t) ==
  LET out == ModelOutcome(response)
  IN IF out.threw THEN cache
     ELSE MapSet(cache, normalizedQuery(call.query), CacheEntry(out.value, t))

\* the endpoint answers 2xx before the timeout
ModelResponds(c, response) ==
  /\ ai[c].pc = "awaitingModel"
  /\ ai[c].inFlight
  /\ response.status = "ok"
  /\ ai' = [ai EXCEPT ![c] = AfterResponse(ai[c], response, now)]
  /\ recommendationCache' = CacheAfterResponse(recommendationCache, ai[c], response, now)
  /\ UNCHANGED <<now, ticks, nextSweep, swept>>

\* catch (error) { clearTimeout(timeoutId); ...; throw error; }
Caught(call, cause) ==
  [call EXCEPT !.pc = "rejected", !.inFlight = FALSE, !.timerArmed = FALSE,
               !.cause = cause]

\* axios.post rejects: network error or a non-2xx status
ModelHttpError(c) ==
  /\ ai[c].pc = "awaitingModel"
  /\ ai[c].inFlight
  /\ ai' = [ai EXCEPT ![c] = Caught(ai[c], "http")]
  /\ UNCHANGED <<now, ticks, recommendationCache, nextSweep, swept>>

\* the setTimeout callback runs: controller.abort(); axios cancels the request
\* and rejects, the catch block runs. A timer left armed after the function
\* settled would still set the signal.
AbortTimerFires(c) ==
  /\ ai[c].timerArmed
  /\ now >= ai[c].deadline
  /\ ai' = [ai EXCEPT ![c] =
              IF ai[c].inFlight
              THEN [Caught(ai[c], "abort") EXCEPT !.aborted = TRUE]
              ELSE [ai[c] EXCEPT !.aborted = TRUE, !.timerArmed = FALSE]]
  /\ UNCHANGED <<now, ticks, recommendationCache, nextSweep, swept>>

\* axios' own `timeout: timeoutMs` expires first: the request is torn down and
\* axios.post rejects, the catch block clears the abort timer
AxiosTimeout(c) ==
  /\ ai[c].pc = "awaitingModel"
  /\ ai[c].inFlight
  /\ now >= ai[c].deadline
  /\ ai' = [ai EXCEPT ![c] = Caught(ai[c], "timeout")]
  /\ UNCHANGED <<now, ticks, recommendationCache, nextSweep, swept>>

\* the caller of getAIRecommendations has taken the settled promise
Release(c) ==
  /\ ai[c].pc \in {"resolved", "rejected"}
  /\ ~ai[c].timerArmed
  /\ ai' = [ai EXCEPT ![c] = IdleCall]
  /\ UNCHANGED <<now, ticks, recommendationCache, nextSweep, swept>>

\* export const clearRecommendationCache
clearRecommendationCache ==
  /\ recommendationCache # EmptyMap
  /\ recommendationCache' = EmptyMap
  /\ UNCHANGED <<now, ticks, nextSweep, swept, ai>>

\* setInterval(() => {...}, CACHE_DURATION): never early, possibly late
Sweep ==
  /\ now >= nextSweep
  /\ recommendationCache' =
       MapDeleteAll(recommendationCache, SweepExpired(recommendationCache, now))
  /\ swept' = SweepExpired(recommendationCache, now)
  /\ nextSweep' = now + CACHE_DURATION
  /\ UNCHANGED <<now, ticks, ai>>

\* Time passes. A pending timer or request timeout fires when it is due.
TimeSteps == {1, TIMEOUT_MS, CACHE_DURATION - 1}

Tick(d) ==
  /\ ticks < MaxTicks
  /\ \A c \in Calls :
       (ai[c].timerArmed \/ ai[c].inFlight) => now + d <= ai[c].deadline
  /\ now' = now + d
  /\ ticks' = ticks + 1
  /\ UNCHANGED <<recommendationCache, nextSweep, swept, ai>>

(* ===================== bookService.ts ================================== *)
\* A string value that is undefined or "" is <<>>: the code only tests such
\* values for truthiness.
undefined == <<>>
Truthy(str) == str # <<>>

SeqMin(a, b) == IF a < b THEN a ELSE b

\* s.substring(0, n)
substring0(s, n) == SubSeq(s, 1, SeqMin(n, Len(s)))

(* --- "Title by Author" ------------------------------------------------- *)
IsB(ch) == ch = "b" \/ ch = "B"
IsY(ch) == ch = "y" \/ ch = "Y"

RECURSIVE SpaceRunEnd(_, _)
\* the last index of the run of whitespace that starts at i
SpaceRunEnd(s, i) ==
  IF i + 1 <= Len(s) /\ IsSpace(s[i + 1]) THEN SpaceRunEnd(s, i + 1) ELSE i

\* . matches every code unit of s (there is no s flag: no line terminator)
DotStar(s) == \A i \in 1..Len(s) : ~IsLineTerminator(s[i])

\* /^(.*?)\s+by\s+(.*)$/i matches with \s+ starting at index i
ByAt(s, i) ==
  /\ IsSpace(s[i])
  /\ DotStar(SubSeq(s, 1, i - 1))
  /\ LET j == SpaceRunEnd(s, i)
     IN /\ j + 3 <= Len(s)
        /\ IsB(s[j + 1]) /\ IsY(s[j + 2])
        /\ IsSpace(s[j + 3])
        /\ DotStar(SubSeq(s, SpaceRunEnd(s, j + 3) + 1, Len(s)))

TitleAuthorMatches(s) == \E i \in 1..Len(s) : ByAt(s, i)

\* group 1 is lazy: the leftmost place where the rest matches
MatchStart(s) == Min({i \in 1..Len(s) : ByAt(s, i)})
MatchGroup1(s) == SubSeq(s, 1, MatchStart(s) - 1)
MatchGroup2(s) ==
  LET j == SpaceRunEnd(s, MatchStart(s))
      k == SpaceRunEnd(s, j + 3)
  IN SubSeq(s, k + 1, Len(s))

\* const title = titleAuthorMatch ? titleAuthorMatch[1].trim() : recommendation;
ParseTitle(recommendation) ==
  IF TitleAuthorMatches(recommendation)
  THEN trim(MatchGroup1(recommendation))
  ELSE recommendation

UnknownAuthor == <<"Unknown Author">>

\* const authorString = titleAuthorMatch ? titleAuthorMatch[2].trim() : 'Unknown Author';
ParseAuthorString(recommendation) ==
  IF TitleAuthorMatches(recommendation)
  THEN trim(MatchGroup2(recommendation))
  ELSE UnknownAuthor

RECURSIVE split(_, _)
\* s.split(sep): always at least one part
split(s, sep) ==
  IF \E i \in 1..Len(s) : s[i] = sep
  THEN LET i == Min({x \in 1..Len(s) : s[x] = sep})
       IN <<SubSeq(s, 1, i - 1)>> \o split(SubSeq(s, i + 1, Len(s)), sep)
  ELSE <<s>>

\* const author = authorString.split(',').map(a => a.trim());
ParseAuthor(authorString) ==
  LET parts == split(authorString, ",")
  IN [i \in 1..Len(parts) |-> trim(parts[i])]

(* --- encodeURIComponent ------------------------------------------------ *)
\* "hi" and "lo" are the two halves of a surrogate pair
HasLoneSurrogate(s) ==
  \E i \in 1..Len(s) :
    \/ s[i] = "hi" /\ (i = Len(s) \/ s[i + 1] # "lo")
    \/ s[i] = "lo" /\ (i = 1 \/ s[i - 1] # "hi")

RECURSIVE PercentEncode(_)
PercentEncode(s) ==
  IF s = <<>> THEN <<>>
  ELSE IF Head(s) = "hi" THEN <<"%F0%9F%98%80">> \o PercentEncode(Tail(Tail(s)))
  ELSE IF Head(s) = " " THEN <<"%20">> \o PercentEncode(Tail(s))
  ELSE IF Head(s) = "," THEN <<"%2C">> \o PercentEncode(Tail(s))
  ELSE <<Head(s)>> \o PercentEncode(Tail(s))

\* encodeURIComponent(s): [threw, value]; URIError on a lone surrogate
encodeURIComponent(s) ==
  IF HasLoneSurrogate(s)
  THEN [threw |-> TRUE, value |-> undefined]
  ELSE [threw |-> FALSE, value |-> PercentEncode(s)]

TitleCut == 30
AuthorCut == 20

\* the placeholder of fetchBookCover (lines 122-127): [threw, value]
PlaceholderNoCut(title, author) ==
  LET t == encodeURIComponent(title)
      a == encodeURIComponent(author)
  IN IF t.threw \/ a.threw
     THEN [threw |-> TRUE, value |-> undefined]
     ELSE [threw |-> FALSE,
           value |-> <<"https://via.placeholder.com/400x600/1e293b/f8fafc?text=">>
                     \o t.value \o <<"+by+">> \o a.value]

Placeholder(title, author) ==
  PlaceholderNoCut(substring0(title, TitleCut), substring0(author, AuthorCut))

(* --- fetchBookCoverFromOpenLibrary -------------------------------------- *)
\* A reply of https://openlibrary.org/search.json: axios resolves ("ok") or
\* rejects ("error": network error, non-2xx, 10 s timeout). A doc carries
\* cover_i ("" when absent) and isbn (<<>> when absent or empty).
Doc(cover_i, isbn) == [cover_i |-> cover_i, isbn |-> isbn]
OpenLibraryReply(status, docs) == [status |-> status, docs |-> docs]

CoverIdUrl(cover_i) == <<"https://covers.openlibrary.org/b/id/", cover_i, "-L.jpg">>
IsbnUrl(isbn) == <<"https://covers.openlibrary.org/b/isbn/", isbn, "-L.jpg">>

FirstIndex(S) == Min(S)

OpenLibrarySearchIsbnFirst(reply) ==
  LET docs == reply.docs
      withCover == {i \in 1..Len(docs) : docs[i].cover_i # ""}
      withIsbn == {i \in 1..Len(docs) : Len(docs[i].isbn) > 0}
  IN IF reply.status = "error" THEN [kind |-> "none", url |-> undefined]
     ELSE IF withIsbn # {}
     THEN [kind |-> "head", url |-> IsbnUrl(docs[FirstIndex(withIsbn)].isbn[1])]
     ELSE IF withCover # {}
     THEN [kind |-> "cover", url |-> CoverIdUrl(docs[FirstIndex(withCover)].cover_i)]
     ELSE [kind |-> "none", url |-> undefined]

\* lines 32-60 up to the HEAD request: [kind, url] with kind
\*   "cover"  return the cover-id URL      "head"  check the ISBN URL first
\*   "none"   return undefined
OpenLibrarySearch(reply) ==
  LET docs == reply.docs
      withCover == {i \in 1..Len(docs) : docs[i].cover_i # ""}
      withIsbn == {i \in 1..Len(docs) : Len(docs[i].isbn) > 0}
  IN IF reply.status = "error" THEN [kind |-> "none", url |-> undefined]
     ELSE IF withCover # {}
     THEN [kind |-> "cover", url |-> CoverIdUrl(docs[FirstIndex(withCover)].cover_i)]
     ELSE IF withIsbn # {}
     THEN [kind |-> "head", url |-> IsbnUrl(docs[FirstIndex(withIsbn)].isbn[1])]
     ELSE [kind |-> "none", url |-> undefined]

(* --- fetchBookCoverFromGoogleBooks -------------------------------------- *)
\* imageLinks of one volume: each size a URL string, or <<>> when absent or ""
Volume(large, medium, thumbnail) ==
  [large |-> large, medium |-> medium, thumbnail |-> thumbnail]
GoogleBooksReply(status, items) == [status |-> status, items |-> items]

VolumeImage(item) ==
  IF Truthy(item.large) THEN item.large
  ELSE IF Truthy(item.medium) THEN item.medium
  ELSE item.thumbnail

\* lines 84-102: the first item that has any image, its largest size
GoogleBooksCover(reply) ==
  LET items == reply.items
      withImage == {i \in 1..Len(items) : Truthy(VolumeImage(items[i]))}
  IN IF reply.status = "error" \/ withImage = {} THEN undefined
     ELSE VolumeImage(items[FirstIndex(withImage)])

(* --- searchGoogleForPDF -------------------------------------------------- *)
\* One result of the programmable search: link, displayLink, snippet; a link is
\* a sequence of pieces, ".pdf" / ".PDF" the extension, "pdf" the bare word
Item(link, displayLink, snippet) ==
  [link |-> link, displayLink |-> displayLink, snippet |-> snippet]
SearchReply(status, items) == [status |-> status, items |-> items]

EndsWithPdf(str) == str # <<>> /\ ToLowerUnit(str[Len(str)]) = ".pdf"
IncludesDotPdf(str) == \E i \in 1..Len(str) : ToLowerUnit(str[i]) = ".pdf"
IncludesPdf(str) == \E i \in 1..Len(str) : ToLowerUnit(str[i]) \in {".pdf", "pdf"}

\* the two tests of the loop body (lines 169-182) on one item
ItemQualifies(item) ==
  /\ Truthy(item.link)
  /\ \/ EndsWithPdf(item.link)
     \/ IncludesDotPdf(item.link)
     \/ IncludesPdf(item.displayLink)
     \/ IncludesPdf(item.snippet)

\* lines 166-187: the link of the first item that passes either test
PdfLink(reply) ==
  LET items == reply.items
      hits == {i \in 1..Len(items) : ItemQualifies(items[i])}
  IN IF reply.status = "error" \/ hits = {} THEN undefined
     ELSE items[FirstIndex(hits)].link

\* the try block of searchGoogleForPDF once axios.get has settled: [threw, value].
\* A reply is "ok" (2xx with items), "noItems" (2xx, no items field), "error"
\* (network error or non-2xx) or "timeout" (15 s): axios.get rejects on the last two
PdfBody(reply) ==
  IF reply.status \in {"error", "timeout"}
  THEN [threw |-> TRUE, value |-> undefined]
  ELSE [threw |-> FALSE, value |-> PdfLink(reply)]

\* the catch block of searchGoogleForPDF (lines 188-195)
PdfNoCatch(r) == r

PdfCatch(r) == IF r.threw THEN [threw |-> FALSE, value |-> undefined] ELSE r

(* ----------------------- bookService.ts: state ------------------------- *)
VARIABLES
  env,      \* which of GOOGLE_API_KEY, GOOGLE_CX are configured
  search,   \* the searchBooks invocation
  conv,     \* its convertAIRecommendationToBook calls, by position
  race      \* the getAIRecommendations invocation of a race variant

bookVars == <<env, search, conv>>
vars ==
  <<now, ticks, recommendationCache, nextSweep, swept, ai, env, search, conv, race>>

\* the two files that hold a race variant of aiService.ts
Variants == {"general", "academic"}

\* const OPTIMIZED_MODELS = [...]; a candidate is known by its index
OPTIMIZED_MODELS == <<"llama-3.2-3b", "phi-3-mini", "gemma-2-9b">>
Candidates == 0..(Len(OPTIMIZED_MODELS) - 1)

\* One promise of OPTIMIZED_MODELS.map(async (model, index) => ...).
\*   state  "none" | "delayed" (in the setTimeout of index * 500) | "inFlight"
\*          | "fulfilled" | "rejected"
\*   value  what it fulfilled with: { result, model }, or undefined
\*          (defined is FALSE)
\*   due    when the delay ends ("delayed"), when the request is given up
\*          ("inFlight")
Candidate(state, value, due) == [state |-> state, value |-> value, due |-> due]

\* return { result, model };
Fulfilment(result, index) ==
  [defined |-> TRUE, result |-> result, model |-> OPTIMIZED_MODELS[index + 1]]

\* the async function ran off its end: the promise fulfils with undefined
FulfilledUndefined == [defined |-> FALSE, result |-> NoValue, model |-> "none"]

NoCandidate == Candidate("none", FulfilledUndefined, 0)

\* One invocation of getAIRecommendations of a race variant.
\*   variant  the file it is in
\*   pc       "idle" | "racing" | "resolved" | "rejected"
\*   path     how it settled: "cache" | "model" | "catch"
\*   result   what it resolved with
IdleRace(variant) ==
  [variant |-> variant, pc |-> "idle", query |-> <<>>, path |-> "none",
   result |-> NoValue, cand |-> [i \in Candidates |-> NoCandidate]]

Environments ==
  { [GOOGLE_API_KEY |-> TRUE, GOOGLE_CX |-> TRUE],
    [GOOGLE_API_KEY |-> FALSE, GOOGLE_CX |-> TRUE],
    [GOOGLE_API_KEY |-> TRUE, GOOGLE_CX |-> FALSE] }

\* the requests one conversion has issued, by endpoint
NoRequests == [pdf |-> 0, openLibrary |-> 0, head |-> 0, googleBooks |-> 0]

\* no reply of the programmable search yet
NoReply == SearchReply("none", <<>>)

\* One convertAIRecommendationToBook call.
\*   typeError  recommendation.match is not a function: rejected at once
\*   pdf        "pending" | "done"              (searchGoogleForPDF)
\*   cover      "openLibrary" | "head" | "googleBooks" | "done" | "threw" | "none"
\*              (fetchBookCover: the request it waits for, or how it settled)
\*   isbnUrl    the URL the HEAD request checks
\*   sent       the requests issued so far, by endpoint
\*   data       the reply searchGoogleForPDF got
\*   openLibraryUrl, googleBooksUrl  what the two cover sources returned
\*   first      which of the two lookups of Promise.all settled first
\*   docs       data.docs of the Open Library reply (<<>> when there is none)
\*   headCheck  "none" | "ok" | "failed": how the HEAD request went
Conversion(index, title, authorString) ==
  [index |-> index, typeError |-> FALSE, title |-> title,
   authorString |-> authorString, author |-> ParseAuthor(authorString),
   pdf |-> "pending", downloadUrl |-> undefined,
   cover |-> "openLibrary", coverUrl |-> undefined, isbnUrl |-> undefined,
   sent |-> [NoRequests EXCEPT !.openLibrary = 1], data |-> NoReply,
   openLibraryUrl |-> undefined, googleBooksUrl |-> undefined, first |-> "none",
   docs |-> <<>>, headCheck |-> "none"]

\* searchGoogleForPDF up to its first await: without credentials it returns
\* undefined and sends nothing
StartPdfKeyOnly(cv, e) ==
  IF ~e.GOOGLE_API_KEY
  THEN [cv EXCEPT !.pdf = "done", !.downloadUrl = undefined, !.first = "pdf"]
  ELSE [cv EXCEPT !.pdf = "pending", !.sent.pdf = 1]

StartPdf(cv, e) ==
  IF ~e.GOOGLE_API_KEY \/ ~e.GOOGLE_CX
  THEN [cv EXCEPT !.pdf = "done", !.downloadUrl = undefined, !.first = "pdf"]
  ELSE [cv EXCEPT !.pdf = "pending", !.sent.pdf = 1]

\* convertAIRecommendationToBook(recommendation, index, originalQuery) up to the
\* await Promise.all([...]): both lookups are started
StartConversion(rec, index, e) ==
  IF ~rec.isString
  THEN [Conversion(index, <<>>, <<>>) EXCEPT !.typeError = TRUE, !.pdf = "done",
                                             !.cover = "none", !.sent = NoRequests]
  ELSE StartPdf(Conversion(index, ParseTitle(rec.text), ParseAuthorString(rec.text)), e)

ConvNeverRejected(cv) == FALSE
ConvRejected(cv) == cv.typeError \/ cv.cover = "threw" \/ cv.pdf = "threw"
ConvFulfilledEarly(cv) == ~cv.typeError /\ cv.cover = "done"
ConvFulfilled(cv) == ~cv.typeError /\ cv.pdf = "done" /\ cv.cover = "done"
LookupsPending(cv) ==
  cv.pdf = "pending" \/ cv.cover \in {"openLibrary", "head", "googleBooks"}

\* the Book of lines 218-227
Book(cv, originalQuery) ==
  [id |-> [prefix |-> "ai-rec-", index |-> cv.index],
   title |-> cv.title, author |-> cv.author,
   subjects |-> originalQuery, source |-> "ai-recommendation",
   isAIRecommendation |-> TRUE,
   downloadUrl |-> cv.downloadUrl, coverUrl |-> cv.coverUrl]

RECURSIVE filter(_, _)
\* aiBooks.filter(book => keep = Truthy(book.downloadUrl))
filter(books, keep) ==
  IF books = <<>> THEN <<>>
  ELSE IF Truthy(Head(books).downloadUrl) = keep
  THEN <<Head(books)>> \o filter(Tail(books), keep)
  ELSE filter(Tail(books), keep)

\* A SearchResult: `fields` are the properties the object has
AllFields ==
  {"books", "totalResults", "query", "enhancedQuery", "searchTerms",
   "aiRecommendationsCount", "pdfFoundCount", "booksWithoutPDFs"}
EmptyFields ==
  {"books", "totalResults", "query", "aiRecommendationsCount", "pdfFoundCount"}

\* the catch block of searchBooks (lines 263-274)
EmptyResult(query) ==
  [fields |-> EmptyFields, books |-> <<>>, totalResults |-> 0, query |-> query,
   enhancedQuery |-> FALSE, searchTerms |-> FALSE,
   aiRecommendationsCount |-> 0, pdfFoundCount |-> 0, booksWithoutPDFs |-> 0]

\* lines 245-250
AllBooksPdfLast(aiBooks) == filter(aiBooks, FALSE) \o filter(aiBooks, TRUE)

AllBooks(aiBooks) == filter(aiBooks, TRUE) \o filter(aiBooks, FALSE)

\* lines 252-261
SearchResultCountsAll(query, aiData, aiBooks) ==
  [fields |-> AllFields, books |-> AllBooks(aiBooks),
   totalResults |-> Len(AllBooks(aiBooks)), query |-> query,
   enhancedQuery |-> aiData.enhancedQuery, searchTerms |-> aiData.searchTerms,
   aiRecommendationsCount |-> Len(aiBooks),
   pdfFoundCount |-> Len(aiBooks),
   booksWithoutPDFs |-> Len(filter(aiBooks, FALSE))]

SearchResult(query, aiData, aiBooks) ==
  [fields |-> AllFields, books |-> AllBooks(aiBooks),
   totalResults |-> Len(AllBooks(aiBooks)), query |-> query,
   enhancedQuery |-> aiData.enhancedQuery, searchTerms |-> aiData.searchTerms,
   aiRecommendationsCount |-> Len(aiBooks),
   pdfFoundCount |-> Len(filter(aiBooks, TRUE)),
   booksWithoutPDFs |-> Len(filter(aiBooks, FALSE))]

\* The searchBooks invocation.
\*   pc       "idle" | "awaitingAI" | "converting" | "done" | "rejected"
\*   outcome  "none" | "success" (the try block returned) | "failure" (the catch did)
IdleSearch ==
  [pc |-> "idle", query |-> <<>>, aiData |-> NoValue, outcome |-> "none",
   result |-> EmptyResult(<<>>)]

\* how searchBooks leaves when something inside its try block throws or rejects
ThrowsPastCatch(s) == [s EXCEPT !.pc = "rejected", !.outcome = "failure"]

Catch(s) ==
  [s EXCEPT !.pc = "done", !.outcome = "failure",
            !.result = EmptyResult(s.query)]

\* aiData.recommendations.map(...) throws a TypeError
MapThrows(aiData) == aiData.kind # "object" \/ aiData.recsKind # "list"

\* await Promise.all(conversions) and the rest of the try block
Join(s, cvs) ==
  IF \E i \in 1..Len(cvs) : ConvRejected(cvs[i])
  THEN Catch(s)
  ELSE IF \A i \in 1..Len(cvs) : ConvFulfilled(cvs[i])
  THEN [s EXCEPT !.pc = "done", !.outcome = "success",
                 !.result = SearchResult(s.query, s.aiData,
                                         [i \in 1..Len(cvs) |-> Book(cvs[i], s.query)])]
  ELSE [s EXCEPT !.pc = "converting"]

\* the conversions searchBooks starts for aiData (lines 239-243)
ConversionsNoIndex(aiData, e) ==
  [i \in 1..Len(aiData.recommendations) |->
     StartConversion(aiData.recommendations[i], 0, e)]

Conversions(aiData, e) ==
  [i \in 1..Len(aiData.recommendations) |->
     StartConversion(aiData.recommendations[i], i - 1, e)]

\* searchBooks from the settlement of getAIRecommendations on: [search, conv]
AfterAI(s, call, e) ==
  IF call.pc = "rejected"
  THEN [search |-> Catch(s), conv |-> <<>>]
  ELSE LET s1 == [s EXCEPT !.aiData = call.result]
       IN IF MapThrows(call.result)
          THEN [search |-> Catch(s1), conv |-> <<>>]
          ELSE [search |-> Join(s1, Conversions(call.result, e)),
                conv |-> Conversions(call.result, e)]

InitBook ==
  /\ env \in Environments
  /\ search = IdleSearch
  /\ conv = <<>>

\* searchBooks continues as soon as the promise of call 1 settles
Continue(s) ==
  IF s.pc = "awaitingAI" /\ Settled(ai'[1])
  THEN /\ search' = AfterAI(s, ai'[1], env).search
       /\ conv' = AfterAI(s, ai'[1], env).conv
  ELSE /\ search' = s
       /\ conv' = conv

\* searchBooks(query) up to its first await
searchBooks(query) ==
  /\ search.pc = "idle"
  /\ GetAIRecommendations(1, query)
  /\ Continue([search EXCEPT !.pc = "awaitingAI", !.query = query])
  /\ UNCHANGED <<env, race>>

\* the endpoint settles the request of call 1 (settles is that step of
\* aiService), searchBooks goes on
AIStep(settles) ==
  /\ search.pc = "awaitingAI"
  /\ settles
  /\ Continue(search)
  /\ UNCHANGED <<env, race>>

\* a lookup of conversion i settled: the conversion is cv now, and when that
\* settles the Promise.all of searchBooks, searchBooks goes on
LookupSettles(i, cv) ==
  /\ conv' = [conv EXCEPT ![i] = cv]
  /\ search' = IF search.pc = "converting" THEN Join(search, conv') ELSE search
  /\ UNCHANGED <<aiVars, env, race>>

\* fetchBookCover of cv has settled
CoverSettled(cv) == cv.cover \in {"done", "threw", "none"}

\* searchGoogleForPDF of cv settles on reply
AfterPdf(cv, reply) ==
  LET r == PdfCatch(PdfBody(reply))
  IN [cv EXCEPT !.pdf = IF r.threw THEN "threw" ELSE "done",
                !.downloadUrl = r.value,
                !.data = reply,
                !.first = IF CoverSettled(cv) THEN cv.first ELSE "pdf"]

\* fetchBookCover of cv settles as cv1 says
AfterCover(cv, cv1) ==
  [cv1 EXCEPT !.first = IF CoverSettled(cv1) /\ cv.pdf = "pending"
                        THEN "cover" ELSE cv.first]

\* the programmable search answers, fails or times out (15 s)
PdfResponds(i, reply) ==
  /\ i \in 1..Len(conv)
  /\ conv[i].pdf = "pending"
  /\ LookupSettles(i, AfterPdf(conv[i], reply))

\* fetchBookCover after Google Books yielded url (lines 122-129)
CoverAfterGoogleBooks(cv, url) ==
  IF Truthy(url)
  THEN [cv EXCEPT !.cover = "done", !.coverUrl = url, !.googleBooksUrl = url]
  ELSE IF Placeholder(cv.title, cv.authorString).threw
  THEN [cv EXCEPT !.cover = "threw"]
  ELSE [cv EXCEPT !.cover = "done",
                  !.coverUrl = Placeholder(cv.title, cv.authorString).value]

\* fetchBookCover after Open Library yielded nothing (lines 117-118): the Google
\* Books request goes out
AskGoogleBooks(cv) == [cv EXCEPT !.cover = "googleBooks", !.sent.googleBooks = 1]

\* fetchBookCover after Open Library yielded url (lines 114-129)
CoverAfterOpenLibrary(cv, url) ==
  IF Truthy(url)
  THEN [cv EXCEPT !.cover = "done", !.coverUrl = url, !.openLibraryUrl = url]
  ELSE AskGoogleBooks(cv)

\* the HEAD request settled (lines 50-60)
AfterHeadRetries(cv, ok) ==
  IF ok THEN CoverAfterOpenLibrary(cv, cv.isbnUrl)
  ELSE [cv EXCEPT !.sent.head = @ + 1]

AfterHead(cv, ok) ==
  IF ok THEN CoverAfterOpenLibrary(cv, cv.isbnUrl)
  ELSE CoverAfterOpenLibrary(cv, undefined)

\* the Open Library search answers, fails or times out (10 s)
OpenLibraryResponds(i, reply) ==
  /\ i \in 1..Len(conv)
  /\ conv[i].cover = "openLibrary"
  /\ LET r == OpenLibrarySearch(reply)
     IN LookupSettles(i, AfterCover(conv[i],
          CASE r.kind = "cover" ->
                 CoverAfterOpenLibrary([conv[i] EXCEPT !.docs = reply.docs], r.url)
            [] r.kind = "head" -> [conv[i] EXCEPT !.cover = "head", !.isbnUrl = r.url,
                                                  !.sent.head = 1, !.docs = reply.docs]
            [] OTHER ->
                 CoverAfterOpenLibrary([conv[i] EXCEPT !.docs = reply.docs], undefined)))

\* the HEAD request for the ISBN cover succeeds, or fails or times out (5 s)
HeadResponds(i, ok) ==
  /\ i \in 1..Len(conv)
  /\ conv[i].cover = "head"
  /\ LookupSettles(i, AfterCover(conv[i],
        AfterHead([conv[i] EXCEPT !.headCheck = IF ok THEN "ok" ELSE "failed"], ok)))

\* the Google Books request answers, fails or times out (10 s)
GoogleBooksResponds(i, reply) ==
  /\ i \in 1..Len(conv)
  /\ conv[i].cover = "googleBooks"
  /\ LookupSettles(i, AfterCover(conv[i],
                        CoverAfterGoogleBooks(conv[i], GoogleBooksCover(reply))))

\* the caller has taken the result and every lookup has settled
SearchReturns ==
  /\ search.pc \in {"done", "rejected"}
  /\ \A i \in 1..Len(conv) : ~LookupsPending(conv[i])
  /\ search' = IdleSearch
  /\ conv' = <<>>
  /\ ai' = [ai EXCEPT ![1] = IdleCall]
  /\ UNCHANGED <<now, ticks, recommendationCache, nextSweep, swept, env, race>>

\* the clock of the search state machine: the request of call 1 is pending and
\* its timeout comes due
TickTimeout ==
  /\ search.pc = "awaitingAI"
  /\ Tick(TIMEOUT_MS)
  /\ UNCHANGED <<bookVars, race>>

\* a recommendation whose title has a surrogate pair across the cut at TitleCut
LongTitle == [i \in 1..(TitleCut + 1) |-> IF i = TitleCut THEN "hi"
                                          ELSE IF i = TitleCut + 1 THEN "lo" ELSE "x"]
RecLong == RecString(LongTitle \o <<" ", "b", "y", " ", "F">>)
JsonRecLong == JsonValue("object", "list", <<RecLong>>, TRUE, TRUE)

\* the queries, the LLM replies and the lookup replies of the search state machine
SearchQueries == { <<"a">>, <<" ", "A">> }
SearchResponses ==
  { Response("ok", "present", <<>>),
    Response("ok", "present", <<Fence, Tag, Ws, ValuePiece(JsonRec3), Ws, Fence>>),
    Response("ok", "present", <<ValuePiece(JsonEmptyObject)>>),
    Response("ok", "present", <<ValuePiece(JsonRecsNumber)>>),
    Response("ok", "present", <<ValuePiece(JsonRecLong)>>) }
PdfReplies ==
  { SearchReply("error", <<>>),
    SearchReply("ok", <<Item(<<"u1", ".pdf">>, <<>>, <<>>)>>) }
OpenLibraryReplies ==
  { OpenLibraryReply("error", <<>>),
    OpenLibraryReply("ok", <<Doc("c1", <<>>)>>) }
GoogleBooksReplies ==
  { GoogleBooksReply("ok", <<>>),
    GoogleBooksReply("ok", <<Volume(<<>>, <<>>, <<"g1">>)>>) }

NextSearch ==
  \/ \E q \in SearchQueries : searchBooks(q)
  \/ \E r \in SearchResponses : AIStep(ModelResponds(1, r))
  \/ AIStep(ModelHttpError(1))
  \/ AIStep(AbortTimerFires(1))
  \/ AIStep(AxiosTimeout(1))
  \/ \E i \in 1..Len(conv), r \in PdfReplies : PdfResponds(i, r)
  \/ \E i \in 1..Len(conv), r \in OpenLibraryReplies : OpenLibraryResponds(i, r)
  \/ \E i \in 1..Len(conv), r \in GoogleBooksReplies : GoogleBooksResponds(i, r)
  \/ SearchReturns
  \/ TickTimeout

\* aiService.ts is the module in use; no race variant is running
InitRaceIdle == race = IdleRace("general")

Init == InitAI /\ InitBook /\ InitRaceIdle

\* a step of aiService.ts outside any searchBooks invocation
Alone(step) == step /\ UNCHANGED <<bookVars, race>>

Next ==
  \/ \E c \in Sequential, q \in Queries : Alone(GetAIRecommendations(c, q))
  \/ \E c \in Sequential, r \in Responses : Alone(ModelResponds(c, r))
  \/ \E c \in Sequential : Alone(ModelHttpError(c))
  \/ \E c \in Sequential : Alone(AbortTimerFires(c))
  \/ \E c \in Sequential : Alone(AxiosTimeout(c))
  \/ \E c \in Sequential : Alone(Release(c))
  \/ Alone(clearRecommendationCache)
  \/ Alone(Sweep)
  \/ \E d \in TimeSteps : Alone(Tick(d))

\* aiService.ts does not read the credentials: one environment is enough
InitConfigured == Init /\ env.GOOGLE_API_KEY /\ env.GOOGLE_CX

Spec == InitConfigured /\ [][Next]_vars
SpecSearch == Init /\ [][NextSearch]_vars

(* ---------------- fetchBookCover on its own (SpecCover) ----------------- *)
\* titles and authors: short, with a surrogate pair inside, with a surrogate pair
\* across the cut of the placeholder, longer than the cut
Repeat(ch, n) == [i \in 1..n |-> ch]
CoverTitles ==
  { <<"D">>,
    <<"D", "hi", "lo">>,
    LongTitle,
    Repeat("x", TitleCut) \o <<"hi", "lo">> }
CoverAuthors ==
  { UnknownAuthor,
    <<"A", ",", " ", "B">>,
    Repeat("x", AuthorCut - 1) \o <<"hi", "lo">> }

AllOpenLibraryReplies ==
  { OpenLibraryReply("error", <<>>),
    OpenLibraryReply("ok", <<>>),
    OpenLibraryReply("ok", <<Doc("", <<>>)>>),
    OpenLibraryReply("ok", <<Doc("", <<"i1", "i2">>)>>),
    OpenLibraryReply("ok", <<Doc("", <<"i1">>), Doc("c2", <<>>)>>),
    OpenLibraryReply("ok", <<Doc("c1", <<"i1">>), Doc("c2", <<>>)>>) }
AllGoogleBooksReplies ==
  { GoogleBooksReply("error", <<>>),
    GoogleBooksReply("ok", <<>>),
    GoogleBooksReply("ok", <<Volume(<<>>, <<>>, <<>>)>>),
    GoogleBooksReply("ok", <<Volume(<<>>, <<>>, <<>>), Volume(<<>>, <<"m2">>, <<"t2">>)>>),
    GoogleBooksReply("ok", <<Volume(<<>>, <<>>, <<"t1">>), Volume(<<"l2">>, <<>>, <<>>)>>),
    GoogleBooksReply("ok", <<Volume(<<"l1">>, <<"m1">>, <<"t1">>)>>) }

\* fetchBookCover(title, author) up to its first await
fetchBookCover(title, author) ==
  /\ search.pc = "idle"
  /\ conv = <<>>
  /\ conv' = <<[Conversion(0, title, author) EXCEPT !.pdf = "done"]>>
  /\ UNCHANGED <<aiVars, env, search, race>>

\* the caller has taken the settled promise of fetchBookCover
CoverReturns ==
  /\ search.pc = "idle"
  /\ conv # <<>>
  /\ ~LookupsPending(conv[1])
  /\ conv' = <<>>
  /\ UNCHANGED <<aiVars, env, search, race>>

NextCover ==
  \/ \E t \in CoverTitles, a \in CoverAuthors : fetchBookCover(t, a)
  \/ \E r \in AllOpenLibraryReplies : OpenLibraryResponds(1, r)
  \/ \E ok \in BOOLEAN : HeadResponds(1, ok)
  \/ \E r \in AllGoogleBooksReplies : GoogleBooksResponds(1, r)
  \/ CoverReturns

SpecCover == Init /\ [][NextCover]_vars

(* ------- searchBooks for one recommendation, every reply (SpecLookups) ------ *)
\* the recommendations: "D by F", "S By A, B", "Sby P", "S by M by K",
\* "D by F" with a line feed at its end, "D by " and the ones that make the
\* conversion throw
RecTwice == RecString(<<"S", " ", "b", "y", " ", "M", " ", "b", "y", " ", "K">>)
RecLineFeed == RecString(<<"D", " ", "b", "y", " ", "F", "\n">>)
RecNoAuthor == RecString(<<"D", " ", "b", "y", " ">>)
LookupRecs == {RecA, RecB, RecC, RecTwice, RecLineFeed, RecNoAuthor, RecLong, RecNumber}

LookupQuery == <<"a">>
LookupResponses ==
  { Response("ok", "present", <<ValuePiece(JsonValue("object", "list", <<rec>>, TRUE, TRUE))>>) :
      rec \in LookupRecs }

\* the replies of the programmable search
AllPdfReplies ==
  { SearchReply("error", <<>>),
    SearchReply("timeout", <<>>),
    SearchReply("noItems", <<>>),
    SearchReply("ok", <<>>),
    SearchReply("ok", <<Item(<<"u1">>, <<>>, <<>>)>>),
    SearchReply("ok", <<Item(<<"u1", ".pdf">>, <<>>, <<>>)>>),
    SearchReply("ok", <<Item(<<"u1">>, <<>>, <<>>), Item(<<"u2", ".PDF">>, <<>>, <<>>)>>),
    SearchReply("ok", <<Item(<<"u1">>, <<>>, <<"pdf">>), Item(<<"u2", ".pdf">>, <<>>, <<>>)>>),
    SearchReply("ok", <<Item(<<>>, <<"pdf">>, <<>>), Item(<<"u2">>, <<"PDF">>, <<>>)>>),
    SearchReply("ok", <<Item(<<"u1", ".pdf", "?x">>, <<>>, <<>>)>>) }

NextLookups ==
  \/ searchBooks(LookupQuery)
  \/ \E r \in LookupResponses : AIStep(ModelResponds(1, r))
  \/ \E r \in AllPdfReplies : PdfResponds(1, r)
  \/ \E r \in AllOpenLibraryReplies : OpenLibraryResponds(1, r)
  \/ \E ok \in BOOLEAN : HeadResponds(1, ok)
  \/ \E r \in AllGoogleBooksReplies : GoogleBooksResponds(1, r)
  \/ SearchReturns

SpecLookups == Init /\ [][NextLookups]_vars

(* ------- searchBooks with calls that settle in the end (SpecTermination) ---- *)
\* two recommendations, the second with a title the placeholder cannot encode;
\* a reply that does not parse; Open Library replies with a cover, with an ISBN
\* only, and a failure
JsonRec2 == JsonValue("object", "list", <<RecA, RecLong>>, TRUE, TRUE)
TerminationResponses ==
  { Response("ok", "present", <<>>),
    Response("ok", "present", <<ValuePiece(JsonRec2)>>) }
TerminationOpenLibraryReplies ==
  { OpenLibraryReply("error", <<>>),
    OpenLibraryReply("ok", <<Doc("", <<"i1">>)>>),
    OpenLibraryReply("ok", <<Doc("c1", <<>>)>>) }

\* the pending LLM request settles: a reply, an HTTP error or a timeout
AISettles ==
  \/ \E r \in TerminationResponses : AIStep(ModelResponds(1, r))
  \/ AIStep(ModelHttpError(1))
  \/ AIStep(AbortTimerFires(1))
  \/ AIStep(AxiosTimeout(1))

\* a pending lookup request settles: a reply, an error or its timeout
SomeLookupSettles ==
  \/ \E i \in 1..Len(conv), r \in PdfReplies : PdfResponds(i, r)
  \/ \E i \in 1..Len(conv), r \in TerminationOpenLibraryReplies :
        OpenLibraryResponds(i, r)
  \/ \E i \in 1..Len(conv), ok \in BOOLEAN : HeadResponds(i, ok)
  \/ \E i \in 1..Len(conv), r \in GoogleBooksReplies : GoogleBooksResponds(i, r)

NextTermination ==
  \/ searchBooks(LookupQuery)
  \/ AISettles
  \/ SomeLookupSettles
  \/ SearchReturns
  \/ TickTimeout

\* every network call eventually responds or hits its own timeout
SpecTermination ==
  /\ Init /\ [][NextTermination]_vars
  /\ WF_vars(AISettles) /\ WF_vars(SomeLookupSettles)

(* ------------- overlapping getAIRecommendations calls (SpecOverlap) -------- *)
\* two spellings of one key; two replies with different recommendations and one
\* with no content
OverlapQueries == { <<"a">>, <<" ", "A">> }
OverlapResponses ==
  { Response("ok", "present", <<ValuePiece(JsonRec3)>>),
    Response("ok", "present", <<ValuePiece(JsonRec1)>>),
    Response("ok", "empty", <<>>) }

NextOverlap ==
  \/ \E c \in Calls, q \in OverlapQueries : Alone(GetAIRecommendations(c, q))
  \/ \E c \in Calls, r \in OverlapResponses : Alone(ModelResponds(c, r))
  \/ \E c \in Calls : Alone(Release(c))
  \/ Alone(Tick(1))

SpecOverlap == InitConfigured /\ [][NextOverlap]_vars

(* --------------- the sweep timer fires when it is due (SpecPunctual) ------- *)
\* time never passes the instant at which the sweep is due before the sweep ran
PunctualSteps == {1, CACHE_DURATION - 1, CACHE_DURATION}
TickPunctual(d) == now + d <= nextSweep /\ Tick(d)

PunctualResponses ==
  { Response("ok", "present", <<ValuePiece(JsonRec1)>>),
    Response("ok", "empty", <<>>) }

NextPunctual ==
  \/ \E c \in Sequential, q \in Queries : Alone(GetAIRecommendations(c, q))
  \/ \E c \in Sequential, r \in PunctualResponses : Alone(ModelResponds(c, r))
  \/ \E c \in Sequential : Alone(Release(c))
  \/ Alone(Sweep)
  \/ \E d \in PunctualSteps : Alone(TickPunctual(d))

SpecPunctual == InitConfigured /\ [][NextPunctual]_vars

(* ------ the race variants, part_000 and UserMenu.tsx (SpecRace) ------------ *)
\* s.includes(k)
includes(s, k) ==
  \E i \in 1..(Len(s) - Len(k) + 1) : SubSeq(s, i, i + Len(k) - 1) = k

\* a.slice(0, n)
slice0(a, n) == SubSeq(a, 1, SeqMin(n, Len(a)))

\* a canned citation or search term is one token
Canned(a, b, c) == << <<a>>, <<b>>, <<c>> >>

\* const getFallbackRecommendations = (query: string): string[]
getFallbackRecommendations(query) ==
  LET lowerQuery == toLowerCase(query) IN
  IF \/ includes(lowerQuery, <<"s", "a", "d">>)
     \/ includes(lowerQuery, <<"d", "e", "p", "r", "e", "s", "s", "e", "d">>)
     \/ includes(lowerQuery, <<"d", "o", "w", "n">>)
  THEN Canned("The Midnight Library by Matt Haig",
              "Reasons to Stay Alive by Matt Haig",
              "The Book of Joy by Dalai Lama and Desmond Tutu")
  ELSE IF \/ includes(lowerQuery, <<"a", "n", "x", "i", "o", "u", "s">>)
          \/ includes(lowerQuery, <<"w", "o", "r", "r", "y">>)
          \/ includes(lowerQuery, <<"s", "t", "r", "e", "s", "s">>)
  THEN Canned("The Anxiety and Phobia Workbook by Edmund Bourne",
              "Dare by Barry McDonagh",
              "The Power of Now by Eckhart Tolle")
  ELSE IF \/ includes(lowerQuery, <<"m", "o", "t", "i", "v", "a", "t", "i", "o", "n">>)
          \/ includes(lowerQuery, <<"i", "n", "s", "p", "i", "r", "a", "t", "i", "o", "n">>)
          \/ includes(lowerQuery, <<"l", "o", "s", "t">>)
  THEN Canned("Atomic Habits by James Clear",
              "The 7 Habits of Highly Effective People by Stephen Covey",
              "Man's Search for Meaning by Viktor Frankl")
  ELSE IF \/ includes(lowerQuery, <<"r", "o", "m", "a", "n", "c", "e">>)
          \/ includes(lowerQuery, <<"l", "o", "v", "e">>)
  THEN Canned("Pride and Prejudice by Jane Austen",
              "The Seven Husbands of Evelyn Hugo by Taylor Jenkins Reid",
              "Me Before You by Jojo Moyes")
  ELSE IF \/ includes(lowerQuery, <<"f", "a", "n", "t", "a", "s", "y">>)
          \/ includes(lowerQuery, <<"m", "a", "g", "i", "c">>)
  THEN Canned("The Name of the Wind by Patrick Rothfuss",
              "The Way of Kings by Brandon Sanderson",
              "The Hobbit by J.R.R. Tolkien")
  ELSE Canned("The Alchemist by Paulo Coelho",
              "Educated by Tara Westover",
              "The Seven Habits of Highly Effective People by Stephen Covey")

\* const generateSearchTerms = (query: string): string[]
generateSearchTerms(query) ==
  LET lowerQuery == toLowerCase(query)
      pushed ==
        IF \/ includes(lowerQuery, <<"s", "a", "d">>)
           \/ includes(lowerQuery, <<"d", "e", "p", "r", "e", "s", "s", "e", "d">>)
        THEN Canned("uplifting books", "mental health", "hope")
        ELSE IF includes(lowerQuery, <<"m", "o", "t", "i", "v", "a", "t", "i", "o", "n">>)
        THEN Canned("self-help", "personal development", "success")
        ELSE IF includes(lowerQuery, <<"r", "o", "m", "a", "n", "c", "e">>)
        THEN Canned("contemporary romance", "love stories", "romantic fiction")
        ELSE IF includes(lowerQuery, <<"f", "a", "n", "t", "a", "s", "y">>)
        THEN Canned("epic fantasy", "sword and sorcery", "magical realism")
        ELSE Canned("popular fiction", "bestsellers", "award winners")
      baseTerms == <<query>> \o pushed
  IN slice0(baseTerms, 3)

\* Whether getFallbackRecommendations and generateSearchTerms, the names the
\* catch block of getAIRecommendations calls, are bound in the file: part_000
\* declares them; UserMenu.tsx declares getAcademicFallbackRecommendations and
\* generateAcademicSearchTerms only, and imports neither name.
FallbackInScope(variant) == variant = "general"

\* the object the catch block returns
Fallback(query) ==
  [enhancedQuery |-> query,
   recommendations |-> getFallbackRecommendations(query),
   searchTerms |-> generateSearchTerms(query)]

\* One candidate from the reply to its settlement (the lines after the await
\* of axios.post): reading [0] of a missing choices throws and extractJson may
\* throw, both rethrown by the catch; falsy content skips the if and the
\* function ends without a return.
CandidateOutcome(index, response) ==
  IF response.choices = "missing"
  THEN Candidate("rejected", FulfilledUndefined, 0)
  ELSE IF response.choices = "empty" \/ ~Truthy(response.content)
  THEN Candidate("fulfilled", FulfilledUndefined, 0)
  ELSE LET parsed == extractJsonFromResponse(response.content) IN
       IF parsed.threw
       THEN Candidate("rejected", FulfilledUndefined, 0)
       ELSE Candidate("fulfilled", Fulfilment(parsed.value, index), 0)

\* Promise.any(promises) when candidate i settles as c while the others are as
\* in cand: fulfils with the first fulfilment, rejects once all have rejected
PromiseAny(cand, i, c) ==
  IF c.state = "fulfilled"
  THEN [state |-> "fulfilled", value |-> c.value]
  ELSE IF \A j \in Candidates \ {i} : cand[j].state = "rejected"
  THEN [state |-> "rejected", value |-> FulfilledUndefined]
  ELSE [state |-> "pending", value |-> FulfilledUndefined]

\* tryModelsWithTimeout after its await: const { result } = <the fulfilment>
\* throws on undefined, inside the try whose catch throws 'All models failed'
tryModelsWithTimeout(any) ==
  IF any.state = "fulfilled" /\ any.value.defined
  THEN [threw |-> FALSE, value |-> any.value.result]
  ELSE [threw |-> TRUE, value |-> NoValue]

\* getAIRecommendations(query) of a race variant up to its first await; the
\* candidates of an earlier invocation only log from here on and are dropped.
\* The caller starts one invocation at a time and repeats its query.
RaceGet(query) ==
  LET key == normalizedQuery(query) IN
  /\ race.pc # "racing"
  /\ race.pc = "idle" \/ query = race.query
  /\ race' =
       IF CacheHit(recommendationCache, key, now)
       THEN [IdleRace(race.variant) EXCEPT
               !.pc = "resolved", !.query = query, !.path = "cache",
               !.result = recommendationCache[key].data]
       ELSE [IdleRace(race.variant) EXCEPT
               !.pc = "racing", !.query = query,
               !.cand = [i \in Candidates |->
                           IF i > 0
                           THEN Candidate("delayed", FulfilledUndefined,
                                          now + i * StaggerMs)
                           ELSE Candidate("inFlight", FulfilledUndefined,
                                          now + RaceTimeoutMs)]]
  /\ UNCHANGED <<aiVars, bookVars>>

\* the delay of candidate i is over: it arms its abort timer and posts
CandidateStarts(i) ==
  /\ race.cand[i].state = "delayed"
  /\ now = race.cand[i].due
  /\ race' = [race EXCEPT
                !.cand[i] = Candidate("inFlight", FulfilledUndefined,
                                      now + RaceTimeoutMs)]
  /\ UNCHANGED <<aiVars, bookVars>>

\* Candidate i settles as c; when that settles Promise.any,
\* tryModelsWithTimeout and getAIRecommendations run on: the result is cached
\* and returned, or the catch block runs.
RaceSettles(i, c) ==
  LET any == PromiseAny(race.cand, i, c)
      tried == tryModelsWithTimeout(any)
      key == normalizedQuery(race.query)
      settled == [race EXCEPT !.cand[i] = c]
  IN
  /\ race.cand[i].state = "inFlight"
  /\ IF race.pc # "racing" \/ any.state = "pending"
     THEN /\ race' = settled
          /\ UNCHANGED recommendationCache
     ELSE IF ~tried.threw
     THEN /\ recommendationCache' =
               MapSet(recommendationCache, key, CacheEntry(tried.value, now))
          /\ race' = [settled EXCEPT
                        !.pc = "resolved", !.path = "model",
                        !.result = tried.value]
     ELSE /\ UNCHANGED recommendationCache
          /\ race' =
               IF FallbackInScope(race.variant)
               THEN [settled EXCEPT
                       !.pc = "resolved", !.path = "catch",
                       !.result = Fallback(race.query)]
               ELSE [settled EXCEPT !.pc = "rejected", !.path = "catch"]
  /\ UNCHANGED <<now, ticks, nextSweep, swept, ai, bookVars>>

\* the endpoint answers candidate i with a 2xx before the request is given up
CandidateResponds(i, response) ==
  /\ now < race.cand[i].due
  /\ RaceSettles(i, CandidateOutcome(i, response))

\* the endpoint answers candidate i with an error status, or the network fails
CandidateHttpError(i) ==
  /\ now < race.cand[i].due
  /\ RaceSettles(i, Candidate("rejected", FulfilledUndefined, 0))

\* timeoutMs after the post: controller.abort() and axios' own timeout
CandidateTimesOut(i) ==
  /\ now = race.cand[i].due
  /\ RaceSettles(i, Candidate("rejected", FulfilledUndefined, 0))

\* time passes, up to the next timer of a candidate
RaceSteps == {StaggerMs, RaceTimeoutMs - 2 * StaggerMs}
RaceTick(d) ==
  /\ \A i \in Candidates :
       race.cand[i].state \in {"delayed", "inFlight"} => now + d <= race.cand[i].due
  /\ Tick(d)
  /\ UNCHANGED <<bookVars, race>>

\* "sad", "Down", "lost love" and a query without a keyword
RaceQueries ==
  { <<"s", "a", "d">>,
    <<"D", "o", "w", "n">>,
    <<"l", "o", "s", "t", " ", "l", "o", "v", "e">>,
    <<"a">> }

RaceResponses ==
  { Response("ok", "missing", <<>>),
    Response("ok", "empty", <<>>),
    Response("ok", "present", <<>>),
    Response("ok", "present", <<Fence, Prose, Fence>>),
    Response("ok", "present", <<ValuePiece(JsonRec1)>>),
    Response("ok", "present", <<Fence, Tag, Ws, ValuePiece(JsonRec3), Ws, Fence>>) }

NextRace ==
  \/ \E q \in RaceQueries : RaceGet(q)
  \/ \E i \in Candidates : CandidateStarts(i)
  \/ \E i \in Candidates, r \in RaceResponses : CandidateResponds(i, r)
  \/ \E i \in Candidates : CandidateHttpError(i)
  \/ \E i \in Candidates : CandidateTimesOut(i)
  \/ \E d \in RaceSteps : RaceTick(d)

\* one of the two files is the module in use
InitRace ==
  /\ InitAI
  /\ InitBook
  /\ env.GOOGLE_API_KEY
  /\ env.GOOGLE_CX
  /\ race \in {IdleRace(v) : v \in Variants}

SpecRace == InitRace /\ [][NextRace]_vars

(* ------------------------------ claims --------------------------------- *)
Age(cache, k) == now - cache[k].timestamp

\* a step in which call c runs getAIRecommendations up to its first await
Looks(c) == ai[c].pc = "idle" /\ ai'[c].pc # "idle"

\* something inside the try block of searchBooks threw or rejected
BodyThrew ==
  \/ ai[1].pc = "rejected"
  \/ ai[1].pc = "resolved" /\ MapThrows(ai[1].result)
  \/ \E i \in 1..Len(conv) : ConvRejected(conv[i])

\* C1: searchBooks never rejects; once getAIRecommendations has rejected or
\* anything else in its body has thrown, it has resolved to exactly
\* {books: [], totalResults: 0, query, aiRecommendationsCount: 0, pdfFoundCount: 0}
C1_NeverRejects ==
  /\ search.pc # "rejected"
  /\ (search.pc # "idle" /\ BodyThrew) =>
       /\ search.pc = "done"
       /\ search.outcome = "failure"
       /\ search.result.fields =
            {"books", "totalResults", "query", "aiRecommendationsCount", "pdfFoundCount"}
       /\ search.result.books = <<>>
       /\ search.result.totalResults = 0
       /\ search.result.query = search.query
       /\ search.result.aiRecommendationsCount = 0
       /\ search.result.pdfFoundCount = 0

\* C1 witness: the LLM request timed out, getAIRecommendations rejected and
\* searchBooks resolved to the empty result for the query as the caller wrote it
C1_Witness ==
  /\ search.pc = "done" /\ search.outcome = "failure"
  /\ ai[1].pc = "rejected" /\ ai[1].cause = "abort"
  /\ search.query = <<" ", "A">>
  /\ search.result.query = <<" ", "A">>
  /\ search.result.books = <<>>

HasPdf(book) == book.downloadUrl # <<>>

\* C2: on success the books are the converted books, each once, those with a
\* downloadUrl before those without, and inside each group in the order of the
\* recommendations list
C2_StablePartition ==
  search.outcome = "success" =>
    LET books == search.result.books
    IN /\ Len(books) = Len(conv)
       /\ \A k \in 1..Len(conv) :
            Cardinality({p \in 1..Len(books) : books[p] = Book(conv[k], search.query)}) = 1
       /\ \A p, q \in 1..Len(books) :
            p < q =>
              /\ ~(~HasPdf(books[p]) /\ HasPdf(books[q]))
              /\ HasPdf(books[p]) = HasPdf(books[q])
                   => books[p].id.index < books[q].id.index

\* C2 witness: of the recommendations A, B, C the books of A and C have a PDF and
\* the book of B has none: the result lists them as A, C, B
C2_Witness ==
  /\ search.outcome = "success"
  /\ Len(search.result.books) = 3
  /\ search.result.books[1].id.index = 0 /\ HasPdf(search.result.books[1])
  /\ search.result.books[2].id.index = 2 /\ HasPdf(search.result.books[2])
  /\ search.result.books[3].id.index = 1 /\ ~HasPdf(search.result.books[3])

\* C3: in a successful result pdfFoundCount and booksWithoutPDFs count the books
\* with and without a downloadUrl, and their sum, totalResults,
\* aiRecommendationsCount, the length of books and the number of recommendations
\* returned by the recommendation client are all equal
C3_CountsAgree ==
  search.outcome = "success" =>
    LET r == search.result
    IN /\ r.pdfFoundCount = Cardinality({p \in 1..Len(r.books) : HasPdf(r.books[p])})
       /\ r.booksWithoutPDFs = Cardinality({p \in 1..Len(r.books) : ~HasPdf(r.books[p])})
       /\ r.pdfFoundCount + r.booksWithoutPDFs = r.totalResults
       /\ r.totalResults = r.aiRecommendationsCount
       /\ r.aiRecommendationsCount = Len(r.books)
       /\ Len(r.books) = Len(search.aiData.recommendations)
       /\ \A p, q \in 1..Len(r.books) : p # q => r.books[p].id # r.books[q].id

\* C3 witness: a successful result of three books, two of them with a PDF
C3_Witness ==
  /\ search.outcome = "success"
  /\ search.result.totalResults = 3
  /\ search.result.pdfFoundCount = 2
  /\ search.result.booksWithoutPDFs = 1

\* C4: a lookup whose query normalizes to the key of an entry younger than
\* CACHE_DURATION returns that entry's data and sends no request to the LLM
\* endpoint; and an entry stays as stored unless it is cleared, overwritten by a
\* later fetch for the same key, or swept once it is older than CACHE_DURATION.
C4_CacheHit ==
  [][ /\ \A c \in Calls :
           Looks(c) =>
             LET key == normalizedQuery(ai'[c].query)
             IN (key \in DOMAIN recommendationCache
                 /\ Age(recommendationCache, key) < CACHE_DURATION)
                => /\ ai'[c].pc = "resolved"
                   /\ ai'[c].result = recommendationCache[key].data
                   /\ ai'[c].requests = 0
      /\ \A k \in DOMAIN recommendationCache :
           \/ k \in DOMAIN recommendationCache'
              /\ recommendationCache'[k] = recommendationCache[k]
           \/ recommendationCache' = EmptyMap
           \/ \E c \in Calls : /\ ai[c].pc = "awaitingModel"
                               /\ ai'[c].pc = "resolved"
                               /\ normalizedQuery(ai[c].query) = k
           \/ nextSweep' # nextSweep /\ Age(recommendationCache, k) > CACHE_DURATION
    ]_vars

\* C4 witness: a call answered from the cache, later than the entry was written,
\* for a query spelled differently from the key, with no request sent
C4_Witness ==
  \E c \in Calls :
    /\ ai[c].pc = "resolved" /\ ai[c].fromCache /\ ai[c].requests = 0
    /\ normalizedQuery(ai[c].query) # ai[c].query
    /\ normalizedQuery(ai[c].query) \in DOMAIN recommendationCache
    /\ now > recommendationCache[normalizedQuery(ai[c].query)].timestamp

\* C5: a lookup that finds an entry older than CACHE_DURATION for its key is a
\* miss: it sends a fresh request to the LLM endpoint and returns nothing from the
\* cache, whether or not the sweep has removed the entry yet
C5_NoStaleData ==
  [][ \A c \in Calls :
        Looks(c) =>
          LET key == normalizedQuery(ai'[c].query)
          IN (key \in DOMAIN recommendationCache
              /\ Age(recommendationCache, key) > CACHE_DURATION)
             => /\ ai'[c].pc = "awaitingModel"
                /\ ~ai'[c].fromCache
                /\ ai'[c].requests = 1
                /\ ai'[c].inFlight
    ]_vars

\* C5 witness: a fresh request is in flight while the expired entry for its key
\* is still in the map
C5_Witness ==
  \E c \in Calls :
    /\ ai[c].pc = "awaitingModel" /\ ai[c].inFlight
    /\ normalizedQuery(ai[c].query) \in DOMAIN recommendationCache
    /\ Age(recommendationCache, normalizedQuery(ai[c].query)) > CACHE_DURATION

UpperUnits == {"A", "B", "Y", "P", "D", "F"}
IsLowerTrimmed(k) ==
  /\ \A i \in 1..Len(k) : k[i] \notin UpperUnits
  /\ k # <<>> => (k[1] # " " /\ k[Len(k)] # " ")

\* C6: every key in the recommendation cache is lower-cased and trimmed, and it is
\* the normal form of a query; so no two keys of the map normalize to the same
\* string
C6_KeysNormalized ==
  /\ \A k \in DOMAIN recommendationCache :
       IsLowerTrimmed(k) /\ \E q \in Queries : normalizedQuery(q) = k
  /\ \A k1, k2 \in DOMAIN recommendationCache :
       normalizedQuery(k1) = normalizedQuery(k2) => k1 = k2

\* C6 witness: two queries that differ by case and outer whitespace met in one
\* slot: a call for a query that is not in normal form was answered from the
\* entry stored under its normal form, next to an entry for another key
C6_Witness ==
  /\ Cardinality(DOMAIN recommendationCache) = 2
  /\ \E c \in Calls :
       /\ ai[c].pc = "resolved" /\ ai[c].fromCache
       /\ ai[c].query = <<" ", "A">>
       /\ <<"a">> \in DOMAIN recommendationCache

\* C7: a sweep runs no earlier than it is due, deletes exactly the entries older
\* than CACHE_DURATION and leaves the others as they were; right after it the map
\* holds no entry older than CACHE_DURATION
C7_Sweep ==
  [][ nextSweep' # nextSweep =>
        /\ now >= nextSweep
        /\ nextSweep' = now + CACHE_DURATION
        /\ DOMAIN recommendationCache' =
             {k \in DOMAIN recommendationCache :
                Age(recommendationCache, k) <= CACHE_DURATION}
        /\ \A k \in DOMAIN recommendationCache' :
             recommendationCache'[k] = recommendationCache[k]
        /\ \A k \in DOMAIN recommendationCache' :
             now' - recommendationCache'[k].timestamp <= CACHE_DURATION
    ]_vars

\* C7 witness: a sweep has just deleted an expired entry and kept a younger one
C7_Witness ==
  /\ swept # {}
  /\ nextSweep = now + CACHE_DURATION
  /\ \E k \in DOMAIN recommendationCache : recommendationCache[k].timestamp < now

\* C8: getRecommendationsFromModel resolves only with a value of the
\* Recommendation shape, and rejects when the call fails or the reply is unusable
C8_ResolvesOnlyWithShape ==
  \A c \in Calls :
    (ai[c].pc = "resolved" /\ ~ai[c].fromCache) => AIRecommendation(ai[c].result)

\* C9 as amended: a request is never in flight past its deadline: when the timeout
\* elapses it is torn down, by the abort signal or by axios' own timeout of the
\* same length, and the call rejects; once the call has settled the abort timer is
\* cleared, so the signal of a call that settled for another reason never fires
C9_TimeoutAmended ==
  \A c \in Calls :
    /\ ai[c].pc = "awaitingModel" =>
         /\ ai[c].inFlight /\ ai[c].timerArmed
         /\ now <= ai[c].deadline
    /\ ai[c].cause \in {"abort", "timeout"} =>
         /\ ai[c].pc = "rejected"
         /\ now >= ai[c].deadline
    /\ ai[c].cause = "abort" => ai[c].aborted
    /\ Settled(ai[c]) => ~ai[c].inFlight /\ ~ai[c].timerArmed
    /\ ai[c].aborted => ai[c].pc = "rejected" /\ ai[c].cause = "abort"

\* C9 witness: the timeout elapsed with the request pending, the abort signal
\* fired and the call rejected
C9_Witness ==
  \E c \in Calls :
    /\ ai[c].pc = "rejected" /\ ai[c].cause = "abort" /\ ai[c].aborted
    /\ ~ai[c].inFlight
    /\ now = ai[c].deadline

\* C9 as claimed: whenever the timeout ends the request, the abort signal fired
C9_AbortAlwaysFired ==
  \A c \in Calls : ai[c].cause \in {"abort", "timeout"} => ai[c].aborted


\* C10: fetchBookCover never rejects and resolves to a non-empty URL string,
\* whatever the Open Library search, the HEAD check and Google Books answer
C10_CoverNeverRejects ==
  \A i \in 1..Len(conv) :
    /\ conv[i].cover # "threw"
    /\ conv[i].cover = "done" => conv[i].coverUrl # <<>>

\* C10, the part that holds: when the title cut to 30 and the author cut to 20
\* code units hold no lone surrogate, fetchBookCover does not reject and resolves
\* to a non-empty URL
C10_CoverWhenEncodable ==
  \A i \in 1..Len(conv) :
    (~HasLoneSurrogate(SubSeq(conv[i].title, 1, SeqMin(30, Len(conv[i].title))))
     /\ ~HasLoneSurrogate(SubSeq(conv[i].authorString, 1,
                                 SeqMin(20, Len(conv[i].authorString)))))
    => /\ conv[i].cover # "threw"
       /\ conv[i].cover = "done" => conv[i].coverUrl # <<>>

\* fetchBookCoverFromOpenLibrary of cv has returned
OpenLibrarySettled(cv) == cv.cover \notin {"openLibrary", "head"}

IsPlaceholderUrl(url) ==
  url # <<>> /\ url[1] = "https://via.placeholder.com/400x600/1e293b/f8fafc?text="

\* C11: Open Library is queried first; Google Books is queried if and only if
\* Open Library has returned without a URL; a URL of Open Library is the result,
\* with no request to Google Books; and once both sources have returned, the
\* placeholder URL is returned if and only if neither yielded a URL
C11_FallbackOrder ==
  \A i \in 1..Len(conv) :
    LET cv == conv[i]
    IN ~cv.typeError =>
         /\ cv.sent.openLibrary = 1
         /\ cv.sent.googleBooks =
              IF OpenLibrarySettled(cv) /\ ~Truthy(cv.openLibraryUrl) THEN 1 ELSE 0
         /\ Truthy(cv.openLibraryUrl) =>
              cv.cover = "done" /\ cv.coverUrl = cv.openLibraryUrl
         /\ CoverSettled(cv) =>
              ((cv.cover = "done" /\ IsPlaceholderUrl(cv.coverUrl))
               <=> (~Truthy(cv.openLibraryUrl) /\ ~Truthy(cv.googleBooksUrl)))

\* C11, the part that holds: the order of the sources, and the placeholder branch
\* (lines 122-127) is the one taken if and only if neither source yielded a URL
C11_FallbackBranches ==
  \A i \in 1..Len(conv) :
    LET cv == conv[i]
    IN ~cv.typeError =>
         /\ cv.sent.openLibrary = 1
         /\ cv.sent.googleBooks =
              IF OpenLibrarySettled(cv) /\ ~Truthy(cv.openLibraryUrl) THEN 1 ELSE 0
         /\ Truthy(cv.openLibraryUrl) =>
              cv.cover = "done" /\ cv.coverUrl = cv.openLibraryUrl
         /\ Truthy(cv.googleBooksUrl) =>
              cv.cover = "done" /\ cv.coverUrl = cv.googleBooksUrl
         /\ CoverSettled(cv) =>
              ((cv.cover = "threw" \/ IsPlaceholderUrl(cv.coverUrl))
               <=> (~Truthy(cv.openLibraryUrl) /\ ~Truthy(cv.googleBooksUrl)))

Unconfigured == ~env.GOOGLE_API_KEY \/ ~env.GOOGLE_CX

\* C12: when the API key or the search engine id is not configured,
\* searchGoogleForPDF has returned undefined as soon as it is called and has sent
\* no request
C12_NoCredentialsNoRequest ==
  Unconfigured =>
    \A i \in 1..Len(conv) :
      ~conv[i].typeError =>
        /\ conv[i].pdf = "done"
        /\ conv[i].downloadUrl = undefined
        /\ conv[i].sent.pdf = 0
        /\ conv[i].data = NoReply

\* C12 witness: the key is configured and the search engine id is not; the
\* conversion went through with no request to the programmable search, and the
\* book has no downloadUrl
C12_Witness ==
  /\ env.GOOGLE_API_KEY /\ ~env.GOOGLE_CX
  /\ search.outcome = "success"
  /\ Len(conv) = 1
  /\ conv[1].sent.pdf = 0 /\ conv[1].sent.openLibrary = 1
  /\ search.result.books[1].downloadUrl = undefined

\* the items of a reply that have a link, by the two tests of the claim
EndingInPdf(items) ==
  {k \in 1..Len(items) : Truthy(items[k].link) /\ EndsWithPdf(items[k].link)}
MentioningPdf(items) ==
  {k \in 1..Len(items) :
     /\ Truthy(items[k].link)
     /\ \/ IncludesPdf(items[k].link)
        \/ IncludesPdf(items[k].displayLink)
        \/ IncludesPdf(items[k].snippet)}

\* C13: searchGoogleForPDF returns the link of the first item whose link ends in
\* .pdf when there is one; otherwise the link of the first item whose link,
\* display domain or snippet mentions pdf; otherwise undefined
C13_PdfEndingFirst ==
  \A i \in 1..Len(conv) :
    (conv[i].pdf = "done" /\ conv[i].data.status = "ok") =>
      LET items == conv[i].data.items
      IN conv[i].downloadUrl =
           IF EndingInPdf(items) # {}
           THEN items[Min(EndingInPdf(items))].link
           ELSE IF MentioningPdf(items) # {}
           THEN items[Min(MentioningPdf(items))].link
           ELSE undefined

\* the request of searchGoogleForPDF failed or brought no items
PdfCameBackEmpty(cv) ==
  \/ cv.data.status \in {"error", "timeout", "noItems"}
  \/ cv.data.status = "ok" /\ cv.data.items = <<>>

\* C14: searchGoogleForPDF never rejects; a request error, a timeout, a reply
\* without items or with an empty list makes it return undefined, and a
\* conversion whose cover lookup went through still gives its book, without
\* downloadUrl, in a successful result
C14_PdfNeverRejects ==
  \A i \in 1..Len(conv) :
    /\ conv[i].pdf # "threw"
    /\ (conv[i].pdf = "done" /\ PdfCameBackEmpty(conv[i])) =>
         /\ conv[i].downloadUrl = undefined
         /\ (conv[i].cover = "done" /\ Len(conv) = 1) =>
              /\ search.outcome = "success"
              /\ Len(search.result.books) = 1
              /\ search.result.books[1].downloadUrl = undefined
              /\ search.result.books[1].coverUrl = conv[i].coverUrl

\* C14 witness: the programmable search timed out and searchBooks returned the
\* book, with a cover and no downloadUrl
C14_Witness ==
  /\ Len(conv) = 1
  /\ conv[1].data.status = "timeout"
  /\ conv[1].sent.pdf = 1
  /\ search.outcome = "success"
  /\ search.result.totalResults = 1
  /\ search.result.books[1].downloadUrl = undefined

\* the two fields of the record as the replies alone determine them
ExpectedDownloadUrl(cv) == IF cv.sent.pdf = 0 THEN undefined ELSE PdfLink(cv.data)
ExpectedCoverUrl(cv) ==
  IF Truthy(cv.openLibraryUrl) THEN cv.openLibraryUrl
  ELSE IF Truthy(cv.googleBooksUrl) THEN cv.googleBooksUrl
  ELSE Placeholder(cv.title, cv.authorString).value

\* C15: a conversion has started both lookups before it waits for either; its
\* Book is produced only when both have settled; downloadUrl and coverUrl are
\* what the replies determine, whichever lookup settled first; coverUrl is a
\* non-empty URL and downloadUrl is undefined or the link of a returned item
C15_ForkJoin ==
  \A i \in 1..Len(conv) :
    LET cv == conv[i]
    IN ~cv.typeError =>
         /\ cv.sent.openLibrary = 1
         /\ cv.sent.pdf = IF Unconfigured THEN 0 ELSE 1
         /\ search.outcome = "success" =>
              /\ cv.pdf = "done" /\ cv.cover = "done"
              /\ \E p \in 1..Len(search.result.books) :
                   LET b == search.result.books[p]
                   IN /\ b.id.index = cv.index
                      /\ b.downloadUrl = ExpectedDownloadUrl(cv)
                      /\ b.coverUrl = ExpectedCoverUrl(cv)
                      /\ b.coverUrl # <<>>
                      /\ \/ b.downloadUrl = undefined
                         \/ \E k \in 1..Len(cv.data.items) :
                              cv.data.items[k].link = b.downloadUrl

\* C15 witness: the cover lookup settled while the PDF lookup was pending, the PDF
\* lookup settled later, and the Book carries both a cover and a link
C15_Witness ==
  /\ search.outcome = "success"
  /\ Len(conv) = 1
  /\ conv[1].first = "cover"
  /\ search.result.books[1].downloadUrl # undefined
  /\ search.result.books[1].coverUrl # <<>>

\* the well-typed recommendations every one of which searchBooks should turn
\* into a book
ListOfStrings(v) ==
  /\ v.kind = "object" /\ v.recsKind = "list"
  /\ \A k \in 1..Len(v.recommendations) : v.recommendations[k].isString

\* C16: a network call that fails or times out takes nothing else with it:
\* whatever the lookups answer, searchBooks returns one book per recommendation
C16_OneBookPerRecommendation ==
  (search.pc = "done" /\ ai[1].pc = "resolved" /\ ListOfStrings(search.aiData)) =>
    /\ search.outcome = "success"
    /\ Len(search.result.books) = Len(search.aiData.recommendations)

PdfPart(cv) == <<cv.pdf, cv.downloadUrl, cv.data, cv.sent.pdf>>
CoverPart(cv) ==
  <<cv.cover, cv.coverUrl, cv.isbnUrl, cv.openLibraryUrl, cv.googleBooksUrl,
    cv.sent.openLibrary, cv.sent.head, cv.sent.googleBooks, cv.docs, cv.headCheck>>

\* C16, the part that holds: a reply, failure or timeout of one lookup changes
\* that lookup only: not the other lookup of its conversion, not a lookup of
\* another conversion
C16_SiblingsUntouched ==
  [][ (Len(conv') = Len(conv) /\ conv' # conv) =>
        \E i \in 1..Len(conv) :
          /\ \A j \in 1..Len(conv) : j # i => conv'[j] = conv[j]
          /\ \/ PdfPart(conv'[i]) = PdfPart(conv[i])
             \/ CoverPart(conv'[i]) = CoverPart(conv[i])
    ]_vars

\* where a white-space delimited "by" starts in s, in any letter case
SeparatorAt(s, i) ==
  /\ IsSpace(s[i])
  /\ LET j == SpaceRunEnd(s, i)
     IN /\ j + 3 <= Len(s)
        /\ ToLowerUnit(s[j + 1]) = "b" /\ ToLowerUnit(s[j + 2]) = "y"
        /\ IsSpace(s[j + 3])
Separators(s) == {i \in 1..Len(s) : SeparatorAt(s, i)}

TitleOf(s) ==
  IF Separators(s) = {} THEN s ELSE trim(SubSeq(s, 1, Min(Separators(s)) - 1))
AuthorsOf(s) ==
  IF Separators(s) = {} THEN <<UnknownAuthor>>
  ELSE LET j == SpaceRunEnd(s, Min(Separators(s)))
           parts == split(trim(SubSeq(s, j + 3, Len(s))), ",")
       IN [k \in 1..Len(parts) |-> trim(parts[k])]

\* C17: a recommendation "<title> by <authors>", split at the first white-space
\* delimited "by" in any letter case, gives that title and the authors split on
\* commas and trimmed; one without such a separator gives the whole string as
\* title and ["Unknown Author"]; the author list is never empty
C17_Parsing ==
  Len(conv) = Len(search.aiData.recommendations) =>
    \A i \in 1..Len(conv) :
      LET rec == search.aiData.recommendations[i]
      IN rec.isString =>
           /\ conv[i].title = TitleOf(rec.text)
           /\ conv[i].author = AuthorsOf(rec.text)
           /\ conv[i].author # <<>>

\* C17, the part that holds: the same for a recommendation without a line
\* terminator
C17_ParsingOnOneLine ==
  Len(conv) = Len(search.aiData.recommendations) =>
    \A i \in 1..Len(conv) :
      LET rec == search.aiData.recommendations[i]
      IN (rec.isString /\ DotStar(rec.text)) =>
           /\ conv[i].title = TitleOf(rec.text)
           /\ conv[i].author = AuthorsOf(rec.text)
           /\ conv[i].author # <<>>

Arrives(c) == ai[c].pc = "awaitingModel" /\ ai'[c].pc = "resolved"

\* C19 as amended: a call that misses sends its own request, even while another
\* call for the same key is waiting for its reply; a reply that arrives changes
\* its own call only, and the entry of the key is then that reply's data with the
\* time of its arrival, whatever entry was there; so after two overlapping calls
\* the map holds one entry for the key, written by the reply that arrived last
C19_LastWriteWins ==
  [][ /\ \A c \in Calls :
           Looks(c) =>
             LET key == normalizedQuery(ai'[c].query)
             IN key \notin DOMAIN recommendationCache
                => /\ ai'[c].pc = "awaitingModel"
                   /\ ai'[c].requests = 1
                   /\ ai'[c].inFlight
      /\ \A c \in Calls :
           Arrives(c) =>
             LET key == normalizedQuery(ai[c].query)
             IN /\ DOMAIN recommendationCache' = DOMAIN recommendationCache \cup {key}
                /\ recommendationCache'[key] = CacheEntry(ai'[c].result, now)
                /\ \A k \in DOMAIN recommendationCache :
                     k # key => recommendationCache'[k] = recommendationCache[k]
                /\ \A d \in Calls : d # c => ai'[d] = ai[d]
                /\ Cardinality({k \in DOMAIN recommendationCache' :
                                  normalizedQuery(k) = key}) = 1
    ]_vars

\* two calls for one key that both missed and have both resolved
BothMissed ==
  /\ \A c \in Calls : ai[c].pc = "resolved" /\ ~ai[c].fromCache /\ ai[c].requests = 1
  /\ normalizedQuery(ai[1].query) = normalizedQuery(ai[2].query)

\* C19 witness: two overlapping calls for two spellings of one key got different
\* replies; the reply of call 2 arrived last and its data is the entry
C19_Witness ==
  /\ BothMissed
  /\ ai[1].query # ai[2].query
  /\ ai[1].result # ai[2].result
  /\ DOMAIN recommendationCache = {normalizedQuery(ai[2].query)}
  /\ recommendationCache[normalizedQuery(ai[2].query)] = CacheEntry(ai[2].result, now)
  /\ now > 0

\* C19 as claimed: the entries two overlapping calls write for one key carry
\* equivalent data
C19_EquivalentData ==
  BothMissed => ai[1].result = ai[2].result

\* C20: every entry of the recommendation cache holds a well-formed
\* Recommendation, and a search answered from the cache does not fail
C20_CachedWellFormed ==
  /\ \A k \in DOMAIN recommendationCache :
       AIRecommendation(recommendationCache[k].data)
  /\ (search.pc = "done" /\ ai[1].pc = "resolved" /\ ai[1].fromCache
      /\ \A i \in 1..Len(conv) : ~ConvRejected(conv[i]))
     => search.outcome = "success"

\* the entry of key k is there and no longer served
Expired(cache, k) == k \in DOMAIN cache /\ ~CacheHit(cache, k, now)

\* C21 as amended: a lookup never changes the map: an expired entry it finds
\* stays where it is; a key leaves the map only when the sweep deletes it, older
\* than CACHE_DURATION, or when the cache is cleared
C21_NoLazyEviction ==
  [][ /\ \A c \in Calls : Looks(c) => recommendationCache' = recommendationCache
      /\ \A k \in DOMAIN recommendationCache :
           k \notin DOMAIN recommendationCache' =>
             \/ recommendationCache' = EmptyMap /\ UNCHANGED <<ai, nextSweep>>
             \/ /\ nextSweep' # nextSweep
                /\ Age(recommendationCache, k) > CACHE_DURATION
                /\ UNCHANGED ai
    ]_vars

\* C21 witness: the lookup found its entry expired and sent a request; the entry
\* is still in the map, and the sweep that is due has not run yet
C21_Witness ==
  \E c \in Calls :
    /\ ai[c].pc = "awaitingModel" /\ ai[c].requests = 1
    /\ Expired(recommendationCache, normalizedQuery(ai[c].query))
    /\ now >= nextSweep
    /\ swept = {}

\* C21 as claimed: a lookup that finds the entry of its key expired removes it
C21_LazyEviction ==
  [][ \A c \in Calls :
        (Looks(c) /\ Expired(recommendationCache, normalizedQuery(ai'[c].query)))
        => normalizedQuery(ai'[c].query) \notin DOMAIN recommendationCache'
    ]_vars

\* the documents of the Open Library reply that carry a cover id, an ISBN
WithCoverId(docs) == {k \in 1..Len(docs) : docs[k].cover_i # ""}
WithIsbnList(docs) == {k \in 1..Len(docs) : docs[k].isbn # <<>>}

\* C22: when a returned document has a cover id, fetchBookCoverFromOpenLibrary
\* returns the cover-id URL of the first such document and sends no HEAD request;
\* it returns an ISBN URL only when no document has a cover id and the HEAD
\* request for that URL succeeded; when the HEAD request fails or times out it
\* returns no URL and Google Books is asked
C22_CoverIdBeforeIsbn ==
  \A i \in 1..Len(conv) :
    LET cv == conv[i]
    IN (~cv.typeError /\ OpenLibrarySettled(cv)) =>
         /\ WithCoverId(cv.docs) # {} =>
              /\ cv.openLibraryUrl = CoverIdUrl(cv.docs[Min(WithCoverId(cv.docs))].cover_i)
              /\ cv.sent.head = 0 /\ cv.headCheck = "none"
         /\ (WithCoverId(cv.docs) = {} /\ Truthy(cv.openLibraryUrl)) =>
              /\ WithIsbnList(cv.docs) # {}
              /\ cv.openLibraryUrl = IsbnUrl(cv.docs[Min(WithIsbnList(cv.docs))].isbn[1])
              /\ cv.sent.head = 1 /\ cv.headCheck = "ok"
         /\ cv.headCheck = "failed" =>
              /\ cv.openLibraryUrl = undefined
              /\ cv.sent.googleBooks = 1
         /\ (WithCoverId(cv.docs) = {} /\ WithIsbnList(cv.docs) # {}) =>
              cv.sent.head = 1 /\ cv.headCheck # "none"

\* C22 witness: of two documents the first has only an ISBN and the second a
\* cover id: the cover-id URL of the second is the cover and no HEAD request went
\* out
C22_Witness ==
  /\ Len(conv) = 1
  /\ conv[1].cover = "done"
  /\ Len(conv[1].docs) = 2
  /\ conv[1].docs[1].cover_i = "" /\ conv[1].docs[1].isbn # <<>>
  /\ conv[1].coverUrl = CoverIdUrl(conv[1].docs[2].cover_i)
  /\ conv[1].sent.head = 0 /\ conv[1].sent.googleBooks = 0

\* C23: in a successful result every book has the id "ai-rec-" followed by the
\* index, from 0, of the recommendation it was converted from; the ids are
\* pairwise distinct; the index is the position in the recommendations list and
\* not the position in books
C23_PositionalIds ==
  search.outcome = "success" =>
    LET books == search.result.books
        recs == search.aiData.recommendations
    IN /\ \A p \in 1..Len(books) :
            /\ books[p].id.prefix = "ai-rec-"
            /\ books[p].id.index \in 0..(Len(recs) - 1)
            /\ books[p].title = ParseTitle(recs[books[p].id.index + 1].text)
            /\ books[p].author =
                 ParseAuthor(ParseAuthorString(recs[books[p].id.index + 1].text))
       /\ \A p, q \in 1..Len(books) : p # q => books[p].id # books[q].id
       /\ {books[p].id.index : p \in 1..Len(books)} = 0..(Len(recs) - 1)

\* C23 witness: the book of the second recommendation (id ai-rec-1) is the last of
\* three books and the book of the third (id ai-rec-2) is the second
C23_Witness ==
  /\ search.outcome = "success"
  /\ Len(search.result.books) = 3
  /\ search.result.books[3].id = [prefix |-> "ai-rec-", index |-> 1]
  /\ search.result.books[3].title = ParseTitle(search.aiData.recommendations[2].text)
  /\ search.result.books[2].id = [prefix |-> "ai-rec-", index |-> 2]

\* call c rejects in this step
Rejects(c) == ai[c].pc = "awaitingModel" /\ ai'[c].pc = "rejected"

\* C26: the step in which getAIRecommendations rejects leaves the map as it is,
\* entry of its key included; the map changes only when a fetch succeeds, the
\* sweep runs or the cache is cleared
C26_FailedFetchKeepsCache ==
  [][ /\ \A c \in Calls : Rejects(c) => recommendationCache' = recommendationCache
      /\ recommendationCache' # recommendationCache =>
           \/ \E c \in Calls :
                /\ Arrives(c)
                /\ \A k \in DOMAIN recommendationCache :
                     k # normalizedQuery(ai[c].query)
                     => /\ k \in DOMAIN recommendationCache'
                        /\ recommendationCache'[k] = recommendationCache[k]
           \/ nextSweep' # nextSweep
           \/ recommendationCache' = EmptyMap
    ]_vars

\* C26 witness: the fetch for a key whose entry had expired was rejected; the
\* expired entry is in the map with the timestamp it had
C26_Witness ==
  \E c \in Calls :
    /\ ai[c].pc = "rejected" /\ ~ai[c].fromCache
    /\ Expired(recommendationCache, normalizedQuery(ai[c].query))
    /\ Age(recommendationCache, normalizedQuery(ai[c].query)) > CACHE_DURATION
    /\ AIRecommendation(recommendationCache[normalizedQuery(ai[c].query)].data)

\* C27: with a sweep that runs whenever it is due, no entry of the map is older
\* than 2 x CACHE_DURATION, and none that has been through a sweep is older than
\* CACHE_DURATION right after it
C27_BoundedResidence ==
  /\ now <= nextSweep
  /\ \A k \in DOMAIN recommendationCache :
       /\ Age(recommendationCache, k) <= 2 * CACHE_DURATION
       /\ recommendationCache[k].timestamp >= nextSweep - 2 * CACHE_DURATION

\* C27 witness: an entry written at time 0 went through the sweep at
\* CACHE_DURATION, its age then exactly CACHE_DURATION, and the sweep at
\* 2 x CACHE_DURATION has deleted it
C27_Witness ==
  /\ now = 2 * CACHE_DURATION
  /\ nextSweep = 3 * CACHE_DURATION
  /\ swept # {}
  /\ \A k \in swept : k \notin DOMAIN recommendationCache

\* C28: a searchBooks invocation that is waiting, for the recommendations or for
\* its conversions, eventually resolves with a SearchResult
C28_Termination ==
  (search.pc \in {"awaitingAI", "converting"}) ~> (search.pc = "done")

\* C28 witness: searchBooks has resolved after the LLM call and two conversions,
\* one of them with a failed PDF search, a failed HEAD check and the placeholder
\* for a cover, and no lookup is pending
C28_Witness ==
  /\ search.pc = "done" /\ search.outcome = "success"
  /\ ai[1].requests = 1
  /\ Len(conv) = 2
  /\ \A i \in 1..2 : ~LookupsPending(conv[i])
  /\ conv[1].data.status = "error"
  /\ conv[1].headCheck = "failed"
  /\ IsPlaceholderUrl(conv[1].coverUrl)

\* candidate i returned parseable content within its timeout
Succeeded(i) == race.cand[i].state = "fulfilled" /\ race.cand[i].value.defined

\* candidate i answered 2xx without content
CameBackEmpty(i) == race.cand[i].state = "fulfilled" /\ ~race.cand[i].value.defined

\* C24 (as stated): in the race variants, whenever at least one candidate
\* model has returned parseable content within its timeout, the invocation has
\* resolved with the parsed recommendation of a candidate that succeeded and
\* that recommendation is in the cache under the normalised query; the static
\* fallback is not what it settled with, whatever the other candidates did.
C24_FirstSuccessWins ==
  (\E i \in Candidates : Succeeded(i)) =>
    /\ race.pc = "resolved"
    /\ race.path = "model"
    /\ \E i \in Candidates : Succeeded(i) /\ race.result = race.cand[i].value.result
    /\ MapHas(recommendationCache, normalizedQuery(race.query))
    /\ recommendationCache[normalizedQuery(race.query)].data = race.result

\* C24, the part that holds: a candidate that settles with an error leaves the
\* race open; the catch block runs only after every candidate has rejected or
\* after one came back without content.
C24_ErrorsLeaveTheRaceOpen ==
  race.path = "catch" =>
    \/ \A i \in Candidates : race.cand[i].state = "rejected"
    \/ \E i \in Candidates : CameBackEmpty(i)

\* C24, the case that fails: the static fallback was used although a candidate
\* returned parseable content.
C24_EmptyReplyEndsTheRace ==
  /\ race.path = "catch"
  /\ \E i \in Candidates : CameBackEmpty(i)
  /\ \E i \in Candidates : Succeeded(i)

\* the keyword topics in the order the fallback tries them
Topics ==
  << {<<"s", "a", "d">>, <<"d", "e", "p", "r", "e", "s", "s", "e", "d">>,
      <<"d", "o", "w", "n">>},
     {<<"a", "n", "x", "i", "o", "u", "s">>, <<"w", "o", "r", "r", "y">>,
      <<"s", "t", "r", "e", "s", "s">>},
     {<<"m", "o", "t", "i", "v", "a", "t", "i", "o", "n">>,
      <<"i", "n", "s", "p", "i", "r", "a", "t", "i", "o", "n">>,
      <<"l", "o", "s", "t">>},
     {<<"r", "o", "m", "a", "n", "c", "e">>, <<"l", "o", "v", "e">>},
     {<<"f", "a", "n", "t", "a", "s", "y">>, <<"m", "a", "g", "i", "c">>} >>

\* the first citation of each topic's list, and of the default list
FirstCitation ==
  << <<"The Midnight Library by Matt Haig">>,
     <<"The Anxiety and Phobia Workbook by Edmund Bourne">>,
     <<"Atomic Habits by James Clear">>,
     <<"Pride and Prejudice by Jane Austen">>,
     <<"The Name of the Wind by Patrick Rothfuss">>,
     <<"The Alchemist by Paulo Coelho">> >>

Matching(query) ==
  {t \in 1..Len(Topics) : \E k \in Topics[t] : includes(toLowerCase(query), k)}

\* the first matching topic, or the default
FirstTopic(query) ==
  IF Matching(query) = {} THEN Len(Topics) + 1 ELSE Min(Matching(query))

\* v is the static fallback for query
IsStaticFallback(v, query) ==
  /\ v.enhancedQuery = query
  /\ Len(v.recommendations) = 3
  /\ v.recommendations[1] = FirstCitation[FirstTopic(query)]
  /\ Len(v.searchTerms) <= 3
  /\ v.searchTerms[1] = query

\* the step in which the last candidate of a running race fails
AllCandidatesFail ==
  /\ race.pc = "racing"
  /\ \A i \in Candidates : race'.cand[i].state = "rejected"

\* C25 (as stated): in both race variants, when all candidate models have
\* failed, getAIRecommendations does not reject: it resolves to the static
\* fallback for the original query, and the cache is left as it was.
C25_StaticFallback ==
  [][AllCandidatesFail =>
       /\ race'.pc = "resolved"
       /\ IsStaticFallback(race'.result, race.query)
       /\ recommendationCache' = recommendationCache]_vars

\* C25, the part that holds: that is so in the general variant.
C25_GeneralFallback ==
  [][AllCandidatesFail /\ race.variant = "general" =>
       /\ race'.pc = "resolved"
       /\ IsStaticFallback(race'.result, race.query)
       /\ recommendationCache' = recommendationCache]_vars

\* C25, the case that fails: all candidates of the academic variant have
\* failed and the invocation has rejected.
C25_AcademicRejects ==
  /\ race.variant = "academic"
  /\ race.pc = "rejected"
  /\ \A i \in Candidates : race.cand[i].state = "rejected"

====
